---- MODULE Spec2Model ----
(***************************************************************************)
(* Model of the OpenCL Peach driver of the miner: device enumeration       *)
(* (init_opencl_devices), attach (peach_init_opencl_device), detach        *)
(* (peach_free_opencl_device) and the per-device tick (peach_solve_opencl),*)
(* together with the device side of the two command queues; and of the     *)
(* Stratum pool client (stratum.c) with the pool's side of its socket.     *)
(*                                                                         *)
(* One DEVICE_CTX is modelled.  The compute API is modelled by its         *)
(* contract: a command enqueued on a queue runs later (DeviceStep), a      *)
(* create call that fails returns a NULL handle, a call on a NULL queue    *)
(* fails, clFinish runs a queue to completion.  Which API calls fail is an *)
(* input of every operation (a set F of fault sites).                      *)
(***************************************************************************)
EXTENDS Integers, Sequences, FiniteSets, TLC

VARIABLES
    ctx,      \* DEVICE_CTX: status, work, hps, last, threads, block, peach
    ocl,      \* OPENCL_CTX: handles, host buffers, work dimensions
    dev,      \* device side: command queues and device buffers
    out_bt,   \* the caller's btout trailer
    now,      \* wall clock, time(NULL)
    call,     \* the most recent call: operation and return value
    lticks,   \* number of ticks of the current build cycle that launched a build
    sols,     \* solutions: n the device has stamped, rep the serials reported
    strat,    \* STRATUM_CTX
    pipe,     \* the socket: data the pool has sent, open while the pool holds it open
    wire,     \* id and method of the requests the client has sent
    job_bt    \* the caller's BTRAILER for stratum_get_job

dvars == <<ctx, ocl, dev, out_bt, now, call, lticks, sols>>
svars == <<strat, pipe, wire, job_bt>>
vars == <<dvars, svars>>

-----------------------------------------------------------------------------
(* Bounds of the model *)

\* number of entries of the Peach map (scaled down from the program's value)
PEACHCACHELEN == 4
\* soft expiry horizon in clock ticks (scaled down from the program's value)
BRIDGEv3 == 1
\* the clock stops advancing here
MaxTime == 1
\* a tick launches no solve beyond this many launches' worth of ctx.work
MaxSolves == 2
\* the device stamps no more than this many solutions with a serial
MaxFound == 2
\* work groups per compute unit (scaled down from the program's 256)
GridPerCU == 1

\* bytes of a hash: phash, mroot, nonce (scaled down from the program's 32)
HashBytes == 2
\* bytes of a block number (scaled down from the program's 8)
BnumBytes == 1
\* capacity of the receive buffer in tokens (scaled down from 4096 bytes)
STRATUM_BUF_SIZE == 8
\* the buffer is cleared within this distance of its capacity (scaled down
\* from the program's 100)
BufSlack == 3
\* no request is sent with an id beyond this
MaxMsgId == 2
\* no notify is processed beyond this job_seq
MaxSeq == 2
\* no share response is processed beyond this many shares
MaxShares == 1
\* tokens in flight from the pool
MaxPipe == 4

(* Program constants *)

\* connection states
STRATUM_DISCONNECTED == 0
STRATUM_CONNECTING == 1
STRATUM_SUBSCRIBING == 2
STRATUM_AUTHORIZING == 3
STRATUM_CONNECTED == 4

\* default pool difficulty
DefaultDifficulty == 28

\* cap of the work-group size
MaxBlock == 256

\* device status codes, ordered as the driver's comparison needs
DEV_FAIL == -1
DEV_NULL == 0
DEV_IDLE == 1
DEV_INIT == 2
DEV_WORK == 3

\* capabilities a discovered device may report
ComputeUnits == {1, 2}
WorkGroupSizes == {1, 2}

\* values of the trailer fields the caller may pass
PHashes == {1, 2}
BNums == {1}

Min(a, b) == IF a < b THEN a ELSE b
CeilDiv(a, b) == (a + b - 1) \div b

\* F applied to the value of v: sequential code, one statement after another
Then(v, F(_)) == CHOOSE r \in {F(x) : x \in {v}} : TRUE

-----------------------------------------------------------------------------
(* Data *)

\* a 32-byte solve buffer: all zero, or a solution found for a trailer with
\* previous hash ph
ZeroSolve == [found |-> FALSE, ph |-> 0, sn |-> 0]
FoundSolve(p) == [found |-> TRUE, ph |-> p, sn |-> 0]

\* the nonce field of a trailer
ZeroNonce == [kind |-> "zero", ph |-> 0, sn |-> 0]
SeedNonce == [kind |-> "seed", ph |-> 0, sn |-> 0]
SolveNonce(s) == [kind |-> "solve", ph |-> s.ph, sn |-> s.sn]

\* BTRAILER, the fields the driver reads
ZeroBT == [phash |-> 0, bnum |-> 0, tcount |-> 0, time0 |-> 0,
           difficulty |-> 0, nonce |-> ZeroNonce]

\* trailers a caller passes to tick
Trailers == [phash : PHashes, bnum : BNums, tcount : {0, 1}, time0 : {0},
             difficulty : {2}, nonce : {ZeroNonce}]

\* OPENCL_CTX handle fields
Slots == {"context", "queue0", "queue1", "program",
          "k_srand64", "k_peach_build", "k_peach_solve",
          "d_map", "d_phash",
          "d_bt0", "d_state0", "d_solve0", "h_bt0", "h_solve0",
          "d_bt1", "d_state1", "d_solve1", "h_bt1", "h_solve1"}

Idx(name, i) == IF i = 0 THEN name \o "0" ELSE name \o "1"

\* a zeroed OPENCL_CTX with the work dimensions of the device
NewOcl(global, local) ==
    [h |-> [s \in Slots |-> "null"],
     rel |-> [s \in Slots |-> 0],
     ooo |-> FALSE,
     h_bt |-> [i \in 0..1 |-> ZeroBT],
     h_solve |-> [i \in 0..1 |-> ZeroSolve],
     global_work_size |-> global,
     local_work_size |-> local]

\* a device with no queue content and unwritten buffers
BlankDev ==
    [q |-> [i \in 0..1 |-> <<>>],
     d_phash |-> 0,
     d_map |-> [k \in 0..(PEACHCACHELEN - 1) |-> 0],
     d_bt |-> [i \in 0..1 |-> ZeroBT],
     d_solve |-> [i \in 0..1 |-> ZeroSolve]]

Call(op, ret) == [op |-> op, ret |-> ret]

-----------------------------------------------------------------------------
(* init_opencl_devices: one device that passes the memory filter *)

EnumCtx(cu, mwg, t) ==
    LET block == IF mwg > MaxBlock THEN MaxBlock ELSE mwg
        grid == cu * GridPerCU
    IN  [status |-> DEV_NULL, work |-> 0, hps |-> 0, last |-> t,
         peach |-> TRUE, block |-> block, grid |-> grid,
         threads |-> grid * block]

\* the context, its OPENCL_CTX and the (untouched) device after discovery
Discovered(cu, mwg, t) ==
    LET c == EnumCtx(cu, mwg, t)
    IN  [ctx |-> c, ocl |-> NewOcl(c.threads, c.block), dev |-> BlankDev]

-----------------------------------------------------------------------------
(* The device side of the command queues *)

Cmd(op, n, m, bt) == [op |-> op, n |-> n, m |-> m, bt |-> bt]

\* the map after build_map(offset, size) ran with the device phash ph: the
\* work items offset .. offset+size-1 that fall inside the map stamp ph
BuildMap(map, off, size, ph) ==
    [k \in DOMAIN map |-> IF off <= k /\ k < off + size THEN ph ELSE map[k]]

\* the effect of command c of queue i on the buffers of w; found tells
\* whether a solve kernel finds a nonce
Exec(w, i, c, found) ==
    CASE c.op = "fill_bt"     -> [w EXCEPT !.d_bt[i] = ZeroBT]
      [] c.op = "fill_solve"  -> [w EXCEPT !.d_solve[i] = ZeroSolve]
      [] c.op = "write_phash" -> [w EXCEPT !.d_phash = c.n]
      [] c.op = "build"       -> [w EXCEPT !.d_map = BuildMap(@, c.n, c.m, w.d_phash)]
      [] c.op = "write_bt"    -> [w EXCEPT !.d_bt[i] = c.bt]
      [] c.op = "solve"       ->
            IF found
            THEN [w EXCEPT !.d_solve[i] =
                               [FoundSolve(w.d_bt[i].phash) EXCEPT !.sn = w.sn]]
            ELSE w
      [] c.op = "read_solve"  -> [w EXCEPT !.h_solve[i] = w.d_solve[i]]
      [] OTHER                -> w

\* the commands cs of queue i run in this order
RECURSIVE RunCmds(_, _, _, _)
RunCmds(w, i, cs, found) ==
    IF cs = <<>> THEN w
    ELSE RunCmds(Exec(w, i, Head(cs), found), i, Tail(cs), found)

\* clFinish(queue[i]): every command of the queue has run when it returns
Finish(w, i) == [RunCmds(w, i, w.q[i], FALSE) EXCEPT !.q[i] = <<>>]

\* a call that enqueues c on queue[i]
Enqueue(w, i, c) == [w EXCEPT !.q[i] = Append(@, c)]

\* the orders in which the device may run the commands cs of a queue: program
\* order, or any order when the queue executes out of order
Perms(cs) ==
    {p \in [1..Len(cs) -> 1..Len(cs)] : \A a, b \in 1..Len(cs) : a # b => p[a] # p[b]}
Orders(cs, ooo) ==
    IF ooo THEN {[k \in 1..Len(cs) |-> cs[p[k]]] : p \in Perms(cs)} ELSE {cs}

\* the driver's state as one record, for the sequential code of a call:
\* m holds ctx, ocl, dev and the caller's btout; t is the time of the call
World(m, t) ==
    [status |-> m.ctx.status, work |-> m.ctx.work, hps |-> m.ctx.hps,
     last |-> m.ctx.last, threads |-> m.ctx.threads,
     h |-> m.ocl.h, rel |-> m.ocl.rel, ooo |-> m.ocl.ooo,
     h_bt |-> m.ocl.h_bt, h_solve |-> m.ocl.h_solve,
     global_work_size |-> m.ocl.global_work_size,
     local_work_size |-> m.ocl.local_work_size,
     q |-> m.dev.q, d_phash |-> m.dev.d_phash, d_map |-> m.dev.d_map,
     d_bt |-> m.dev.d_bt, d_solve |-> m.dev.d_solve,
     out |-> m.out, now |-> t, sn |-> 0,
     ret |-> "none", done |-> FALSE, brk |-> FALSE, build |-> 0,
     hist |-> <<>>, entry |-> FALSE, builds |-> <<>>, solves |-> <<>>,
     polled |-> {}, ignored |-> {}, finished |-> {}]

\* the state a call leaves: m with the fields of w written back
Result(m, w, peach) ==
    [ctx |-> [m.ctx EXCEPT !.status = w.status, !.work = w.work,
                           !.hps = w.hps, !.last = w.last, !.peach = peach],
     ocl |-> [m.ocl EXCEPT !.h = w.h, !.rel = w.rel, !.ooo = w.ooo,
                           !.h_bt = w.h_bt, !.h_solve = w.h_solve],
     dev |-> [q |-> w.q, d_phash |-> w.d_phash, d_map |-> w.d_map,
              d_bt |-> w.d_bt, d_solve |-> w.d_solve],
     out |-> w.out, ret |-> w.ret, ev |-> w]

-----------------------------------------------------------------------------
(* peach_init_opencl_device *)

\* the setup steps in program order.  kind: "create" stores a handle in slot,
\* "queue0" is the primary queue with its in-order fallback, "call" is a call
\* without a handle, "host" allocates the two host buffers of queue qi,
\* "enqueue" puts cmd on queue qi, "finish" waits for queue qi.
Step(kind, site, slot, qi, cmd, checked) ==
    [kind |-> kind, site |-> site, slot |-> slot, qi |-> qi, cmd |-> cmd,
     checked |-> checked]

QueueSteps(i) ==
    << Step("create", Idx("clCreateBuffer(d_bt)", i), Idx("d_bt", i), i, "", TRUE),
       Step("create", Idx("clCreateBuffer(d_state)", i), Idx("d_state", i), i, "", TRUE),
       Step("create", Idx("clCreateBuffer(d_solve)", i), Idx("d_solve", i), i, "", TRUE),
       Step("host", Idx("calloc", i), "", i, "", TRUE),
       Step("enqueue", Idx("clEnqueueFillBuffer(d_bt)", i), "", i, "fill_bt", FALSE),
       Step("enqueue", Idx("clEnqueueFillBuffer(d_solve)", i), "", i, "fill_solve", FALSE),
       Step("call", Idx("clSetKernelArg(k_srand64)", i), "", i, "", TRUE),
       Step("enqueue", Idx("clEnqueueNDRangeKernel(k_srand64)", i), "", i, "srand", TRUE) >>

AttachProg ==
    << Step("create", "clCreateContext", "context", 0, "", TRUE),
       Step("queue0", "clCreateCommandQueue0", "queue0", 0, "", FALSE),
       Step("create", "clCreateCommandQueue1", "queue1", 1, "", TRUE),
       Step("call", "load_kernel_source", "", 0, "", TRUE),
       Step("create", "clCreateProgramWithSource", "program", 0, "", TRUE),
       Step("call", "clBuildProgram", "", 0, "", TRUE),
       Step("create", "clCreateKernel(kcl_srand64)", "k_srand64", 0, "", TRUE),
       Step("create", "clCreateKernel(kcl_peach_build)", "k_peach_build", 0, "", TRUE),
       Step("create", "clCreateKernel(kcl_peach_solve)", "k_peach_solve", 0, "", TRUE),
       Step("create", "clCreateBuffer(d_map)", "d_map", 0, "", TRUE),
       Step("create", "clCreateBuffer(d_phash)", "d_phash", 0, "", TRUE) >>
    \o QueueSteps(0) \o QueueSteps(1)
    \o << Step("finish", "clFinish0", "", 0, "", FALSE),
          Step("finish", "clFinish1", "", 1, "", FALSE) >>

\* the fault sites of attach
AttachSites ==
    ({AttachProg[k].site : k \in DOMAIN AttachProg}
        \cup {"clCreateCommandQueue0_ooo",
              "calloc(h_bt)0", "calloc(h_solve)0", "calloc(h_bt)1", "calloc(h_solve)1"})
        \ {"calloc0", "calloc1"}

Handle(ok) == IF ok THEN "live" ELSE "null"

\* whether step st fails in world w when the calls in F fail: a call fails
\* when injected, and a call on a NULL queue fails
StepFails(w, st, F) ==
    CASE st.kind = "queue0"  -> /\ "clCreateCommandQueue0_ooo" \in F
                                /\ st.site \in F
      [] st.kind = "host"    -> \/ Idx("calloc(h_bt)", st.qi) \in F
                                \/ Idx("calloc(h_solve)", st.qi) \in F
      [] st.kind = "enqueue" -> \/ st.site \in F
                                \/ w.h[Idx("queue", st.qi)] # "live"
      [] st.kind = "finish"  -> \/ st.site \in F
                                \/ w.h[Idx("queue", st.qi)] # "live"
      [] OTHER               -> st.site \in F

\* what step st leaves behind when it fails (bad) or succeeds
StepEffect(w, st, F, bad) ==
    CASE st.kind = "create"  ->
            [w EXCEPT !.h[st.slot] = Handle(~bad), !.rel[st.slot] = 0]
      [] st.kind = "queue0"  ->
            [w EXCEPT !.h[st.slot] = Handle(~bad), !.rel[st.slot] = 0,
                      !.ooo = "clCreateCommandQueue0_ooo" \notin F]
      [] st.kind = "host"    ->
            [w EXCEPT !.h[Idx("h_bt", st.qi)] =
                          Handle(Idx("calloc(h_bt)", st.qi) \notin F),
                      !.h[Idx("h_solve", st.qi)] =
                          Handle(Idx("calloc(h_solve)", st.qi) \notin F),
                      !.rel[Idx("h_bt", st.qi)] = 0,
                      !.rel[Idx("h_solve", st.qi)] = 0,
                      !.h_bt[st.qi] = ZeroBT,
                      !.h_solve[st.qi] = ZeroSolve]
      [] st.kind = "enqueue" ->
            IF bad THEN w ELSE Enqueue(w, st.qi, Cmd(st.cmd, 0, 0, ZeroBT))
      [] st.kind = "finish"  -> IF bad THEN w ELSE Finish(w, st.qi)
      [] OTHER               -> w

\* StepChecked with the PRNG seeding launch left unchecked
StepCheckedLax(st) == st.checked /\ st.cmd # "srand"

\* whether the driver looks at the outcome of step st
StepChecked(st) == st.checked

\* the outcome of step k, bad telling whether it failed
AfterStep(w, k, F, bad) ==
    IF bad /\ StepChecked(AttachProg[k])
    THEN [StepEffect(w, AttachProg[k], F, bad)
             EXCEPT !.status = DEV_FAIL, !.ret = "VERROR", !.done = TRUE]
    ELSE StepEffect(w, AttachProg[k], F, bad)

RECURSIVE RunAttach(_, _, _)
RunAttach(w, k, F) ==
    IF w.done THEN w
    ELSE IF k > Len(AttachProg)
    THEN [w EXCEPT !.status = DEV_INIT, !.ret = "VEOK"]
    ELSE RunAttach(AfterStep(w, k, F, StepFails(w, AttachProg[k], F)), k + 1, F)

\* the device objects of a fresh attach: empty queues, buffers never written;
\* garbage is what a solve buffer holds before its first fill
FreshWorld(m, garbage) ==
    [World(m, 0) EXCEPT !.q = [i \in 0..1 |-> <<>>],
                        !.d_phash = 0,
                        !.d_map = [k \in DOMAIN m.dev.d_map |-> 0],
                        !.d_bt = [i \in 0..1 |-> ZeroBT],
                        !.d_solve = [i \in 0..1 |-> garbage]]

\* the call on state m when the API calls in F fail
AttachFn(m, F, garbage) ==
    IF ~m.ctx.peach
    THEN [m EXCEPT !.ret = "VERROR"]
    ELSE Then(FreshWorld(m, garbage), LAMBDA w0 :
         Then(RunAttach(w0, 1, F), LAMBDA w : Result(m, w, TRUE)))

-----------------------------------------------------------------------------
(* peach_free_opencl_device *)

\* a handle the release code sees as non-NULL
NonNull(hd) == hd # "null"

ReleaseAll(o) ==
    [o EXCEPT !.h = [s \in Slots |-> IF NonNull(o.h[s]) THEN "released" ELSE "null"],
              !.rel = [s \in Slots |-> IF NonNull(o.h[s]) THEN o.rel[s] + 1
                                       ELSE o.rel[s]]]

\* PeachAfterFree without the reset of ctx->peach
PeachKept == TRUE

\* ctx->peach after the free
PeachAfterFree == FALSE

\* the call on state m
DetachFn(m) ==
    IF ~m.ctx.peach
    THEN [m EXCEPT !.ret = "void"]
    ELSE [m EXCEPT !.ocl = ReleaseAll(m.ocl),
                   !.ctx.peach = PeachAfterFree,
                   !.ctx.status = DEV_NULL,
                   !.dev = BlankDev,
                   !.ret = "void"]

-----------------------------------------------------------------------------
(* peach_solve_opencl *)

\* the fault sites of tick
TickSites ==
    {"clGetCommandQueueInfo", "marker0", "marker1",
     "clEnqueueFillBuffer(entry)0", "clEnqueueFillBuffer(entry)1",
     "clEnqueueWriteBuffer(d_phash)", "clFinish(entry)0", "clFinish(entry)1",
     "clSetKernelArg(k_peach_build)",
     "clEnqueueNDRangeKernel(k_peach_build)0",
     "clEnqueueNDRangeKernel(k_peach_build)1",
     "clEnqueueFillBuffer(solved)0", "clEnqueueFillBuffer(solved)1",
     "clEnqueueWriteBuffer(d_bt)0", "clEnqueueWriteBuffer(d_bt)1",
     "clSetKernelArg(k_peach_solve)",
     "clEnqueueNDRangeKernel(k_peach_solve)0",
     "clEnqueueNDRangeKernel(k_peach_solve)1",
     "clEnqueueReadBuffer(d_solve)0", "clEnqueueReadBuffer(d_solve)1"}

\* a call on queue[i] fails when injected or when the queue handle is NULL
QCallFails(w, site, i, F) ==
    Idx(site, i) \in F \/ w.h[Idx("queue", i)] # "live"

\* an assignment to ctx->status and ctx->work, recorded in the call's history
SetSW(w, st, wk) ==
    [w EXCEPT !.status = st, !.work = wk,
              !.hist = Append(w.hist, [status |-> st, work |-> wk])]

\* ctx->status = DEV_FAIL; return VERROR
Fail(w) ==
    [SetSW(w, DEV_FAIL, w.work) EXCEPT !.ret = "VERROR", !.done = TRUE]

\* opencl_queue_ready: the marker enqueued behind the queue's commands is
\* complete; a failing marker call reads as not ready
QueueReady(w, id, F) ==
    /\ ~QCallFails(w, "marker", id, F)
    /\ w.q[id] = <<>>

\* Unusable that lets a failed device through
UnusableNever(status) == FALSE

\* if (ctx->status < DEV_NULL) return VETIMEOUT
Unusable(status) == status < DEV_NULL

\* BuildGlobal without the rounding to the work-group size
BuildGlobalExact(work, global, local) == Min(PEACHCACHELEN - work, global)

\* BuildGlobal that launches one work group at a time
BuildGlobalOneGroup(work, global, local) == local

\* size of the next build launch
BuildGlobal(work, global, local) ==
    ((Min(PEACHCACHELEN - work, global) + local - 1) \div local) * local

\* an unchecked call that enqueues c on queue[i]: nothing happens if it fails
TryEnqueue(w, site, i, c, F) ==
    IF QCallFails(w, site, i, F)
    THEN [w EXCEPT !.ignored = @ \cup {Idx(site, i)}]
    ELSE Enqueue(w, i, c)

\* an unchecked clFinish(queue[i])
TryFinish(w, site, i, F) ==
    IF QCallFails(w, site, i, F)
    THEN [w EXCEPT !.ignored = @ \cup {Idx(site, i)}]
    ELSE [Finish(w, i) EXCEPT !.finished = @ \cup {i}]

\* BuildEntry that leaves the host solve slots as it finds them
BuildEntryKeepSolve(w, bt, F) ==
    Then(TryEnqueue(w, "clEnqueueFillBuffer(entry)", 0,
                    Cmd("fill_solve", 0, 0, ZeroBT), F), LAMBDA w1 :
    Then(TryEnqueue(w1, "clEnqueueFillBuffer(entry)", 1,
                    Cmd("fill_solve", 0, 0, ZeroBT), F), LAMBDA w2 :
    Then([w2 EXCEPT !.h_bt = [i \in 0..1 |-> bt]], LAMBDA w3 :
    Then(Enqueue(w3, 0, Cmd("write_phash", w3.h_bt[0].phash, 0, ZeroBT)),
         LAMBDA w4 :
    Then(TryFinish(w4, "clFinish(entry)", 0, F), LAMBDA w5 :
    Then(TryFinish(w5, "clFinish(entry)", 1, F), LAMBDA w6 :
        [w6 EXCEPT !.build = 1, !.entry = TRUE]))))))

\* build entry: clear late solves, take the caller's trailer, write its phash
\* to the device and synchronise both queues
BuildEntry(w, bt, F) ==
    Then(TryEnqueue(w, "clEnqueueFillBuffer(entry)", 0,
                    Cmd("fill_solve", 0, 0, ZeroBT), F), LAMBDA w1 :
    Then(TryEnqueue(w1, "clEnqueueFillBuffer(entry)", 1,
                    Cmd("fill_solve", 0, 0, ZeroBT), F), LAMBDA w2 :
    Then([w2 EXCEPT !.h_solve = [i \in 0..1 |-> ZeroSolve],
                    !.h_bt = [i \in 0..1 |-> bt]], LAMBDA w3 :
        IF QCallFails(w3, "clEnqueueWriteBuffer(d_phash)", 0,
                      IF "clEnqueueWriteBuffer(d_phash)" \in F
                      THEN {Idx("clEnqueueWriteBuffer(d_phash)", 0)} ELSE {})
        THEN Fail(w3)
        ELSE
    Then(Enqueue(w3, 0, Cmd("write_phash", w3.h_bt[0].phash, 0, ZeroBT)),
         LAMBDA w4 :
    Then(TryFinish(w4, "clFinish(entry)", 0, F), LAMBDA w5 :
    Then(TryFinish(w5, "clFinish(entry)", 1, F), LAMBDA w6 :
        [w6 EXCEPT !.build = 1, !.entry = TRUE]))))))

\* launch the next build kernel on queue[id]
BuildLaunch(w, id, F) ==
    IF "clSetKernelArg(k_peach_build)" \in F THEN Fail(w)
    ELSE IF QCallFails(w, "clEnqueueNDRangeKernel(k_peach_build)", id, F)
    THEN Fail(w)
    ELSE Then(BuildGlobal(w.work, w.global_work_size, w.local_work_size),
              LAMBDA bg :
         [SetSW(Enqueue(w, id, Cmd("build", w.work, bg, ZeroBT)),
                w.status, w.work + bg)
            EXCEPT !.builds = Append(w.builds,
                       [id |-> id, offset |-> w.work, size |-> bg])])

\* BuildComplete without the check of the secondary queue
BuildCompleteUnchecked(w, id, F) ==
    [SetSW(w, DEV_IDLE, 0) EXCEPT !.last = w.now, !.brk = TRUE]

\* the build is complete once the secondary queue is finished too
BuildComplete(w, id, F) ==
    IF ~QueueReady(w, 1 - id, F)
    THEN [w EXCEPT !.brk = TRUE]
    ELSE [SetSW(w, DEV_IDLE, 0) EXCEPT !.last = w.now, !.brk = TRUE]

\* InitEntry that ignores ctx->work
InitEntryAnyWork(w, id, bt, F) ==
    IF w.build = 0
    THEN IF ~QueueReady(w, 1 - id, F)
         THEN [w EXCEPT !.brk = TRUE]
         ELSE BuildEntry(w, bt, F)
    ELSE w

\* the pre-build check of a pass of the build loop
InitEntry(w, id, bt, F) ==
    IF w.work = 0 /\ w.build = 0
    THEN IF ~QueueReady(w, 1 - id, F)
         THEN [w EXCEPT !.brk = TRUE]
         ELSE BuildEntry(w, bt, F)
    ELSE w

\* InitBuild that takes the map for complete after the first launch
InitBuildShort(w, id, F) ==
    IF w.done \/ w.brk THEN w
    ELSE IF w.work > 0 \/ w.build = 1
    THEN IF w.work < 1
         THEN BuildLaunch(w, id, F)
         ELSE BuildComplete(w, id, F)
    ELSE w

\* the build-state check of a pass of the build loop
InitBuild(w, id, F) ==
    IF w.done \/ w.brk THEN w
    ELSE IF w.work > 0 \/ w.build = 1
    THEN IF w.work < PEACHCACHELEN
         THEN BuildLaunch(w, id, F)
         ELSE BuildComplete(w, id, F)
    ELSE w

\* one pass of the build loop for queue[id]
InitIter(w, id, bt, F) ==
    IF w.done \/ w.brk \/ ~QueueReady(w, id, F)
    THEN w
    ELSE Then(InitEntry([w EXCEPT !.polled = @ \cup {id}], id, bt, F),
              LAMBDA w1 : InitBuild(w1, id, F))

\* GateOpen that does not look at the block number
GateOpenAnyBlock(bt, out, t) ==
    /\ bt.tcount # 0
    /\ ~(t - bt.time0 >= BRIDGEv3)

\* the IDLE gate: tcount, block number and age of the caller's trailer
GateOpen(bt, out, t) ==
    /\ bt.tcount # 0
    /\ bt.bnum # out.bnum
    /\ ~(t - bt.time0 >= BRIDGEv3)

\* IdleGate that also opens on a device that is still building
IdleGateAnyStatus(w, bt) ==
    IF ~w.done /\ w.status \in {DEV_IDLE, DEV_INIT}
              /\ GateOpen(bt, w.out, w.now)
    THEN [SetSW(w, DEV_WORK, 0) EXCEPT !.last = w.now]
    ELSE w

\* while (ctx->status == DEV_IDLE): the switch to WORK
IdleGate(w, bt) ==
    IF ~w.done /\ w.status = DEV_IDLE /\ GateOpen(bt, w.out, w.now)
    THEN [SetSW(w, DEV_WORK, 0) EXCEPT !.last = w.now]
    ELSE w

\* PhashChanged that never sees a change
PhashChangedNever(hbt, bt) == FALSE

\* memcmp of the host trailer's phash with the caller's
PhashChanged(hbt, bt) == hbt.phash # bt.phash

\* the WORK loop's switch to IDLE
WorkExpired(bt, out, t) ==
    \/ bt.tcount = 0
    \/ bt.bnum = out.bnum
    \/ t - bt.time0 >= BRIDGEv3

\* SolveDiff that takes a non-zero floor whatever the trailer says
SolveDiffFloor(diff, btdiff) == IF diff # 0 THEN diff ELSE btdiff

\* difficulty handed to the solve kernel
SolveDiff(diff, btdiff) ==
    IF diff # 0 /\ diff < btdiff THEN diff ELSE btdiff

\* a pending solve: the first 8 bytes of the host solve slot are non-zero
SolvePending(hs) == hs.found

\* ReportSolve that leaves the host solve slot as it is
ReportSolveKeep(w, id, F) ==
    Then([w EXCEPT !.h_bt[id].nonce = SolveNonce(w.h_solve[id])], LAMBDA w1 :
    Then([w1 EXCEPT !.out = w1.h_bt[id]], LAMBDA w2 :
    Then(TryEnqueue(w2, "clEnqueueFillBuffer(solved)", id,
                    Cmd("fill_solve", 0, 0, ZeroBT), F), LAMBDA w3 :
        [w3 EXCEPT !.ret = "VEOK", !.done = TRUE])))

\* report the solve of queue[id] and clear it
ReportSolve(w, id, F) ==
    Then([w EXCEPT !.h_bt[id].nonce = SolveNonce(w.h_solve[id])], LAMBDA w1 :
    Then([w1 EXCEPT !.out = w1.h_bt[id]], LAMBDA w2 :
    Then(TryEnqueue(w2, "clEnqueueFillBuffer(solved)", id,
                    Cmd("fill_solve", 0, 0, ZeroBT), F), LAMBDA w3 :
        [w3 EXCEPT !.h_solve[id] = ZeroSolve, !.ret = "VEOK", !.done = TRUE])))

\* progress counters after a launch
Progress(w, id, bt, diff) ==
    Then(SetSW(w, w.status, w.work + w.threads), LAMBDA w5 :
        [w5 EXCEPT !.hps = w5.work \div
                       (IF w5.now - w5.last # 0 THEN w5.now - w5.last ELSE 1),
                   !.solves = Append(w.solves,
                       [id |-> id, diff |-> SolveDiff(diff, bt.difficulty),
                        phash |-> bt.phash])])

\* start a new attempt on queue[id]
LaunchSolve(w, id, bt, diff, F) ==
    Then([w EXCEPT !.h_bt[id] = [bt EXCEPT !.nonce = SeedNonce]], LAMBDA w1 :
        IF QCallFails(w1, "clEnqueueWriteBuffer(d_bt)", id, F) THEN Fail(w1)
        ELSE IF "clSetKernelArg(k_peach_solve)" \in F
        THEN Fail(Enqueue(w1, id, Cmd("write_bt", 0, 0, w1.h_bt[id])))
        ELSE IF QCallFails(w1, "clEnqueueNDRangeKernel(k_peach_solve)", id, F)
        THEN Fail(Enqueue(w1, id, Cmd("write_bt", 0, 0, w1.h_bt[id])))
        ELSE
    Then(Enqueue(Enqueue(w1, id, Cmd("write_bt", 0, 0, w1.h_bt[id])),
                 id, Cmd("solve", 0, 0, ZeroBT)), LAMBDA w3 :
        IF QCallFails(w3, "clEnqueueReadBuffer(d_solve)", id, F) THEN Fail(w3)
        ELSE Progress(Enqueue(w3, id, Cmd("read_solve", 0, 0, ZeroBT)),
                      id, bt, diff)))

\* BlockUpdate that keeps ctx->work
BlockUpdateKeepWork(w) == [SetSW(w, DEV_INIT, w.work) EXCEPT !.brk = TRUE]

\* the block changed: back to INIT
BlockUpdate(w) == [SetSW(w, DEV_INIT, 0) EXCEPT !.brk = TRUE]

\* SwitchIdle that keeps the work counter
SwitchIdleKeepWork(w) == [SetSW(w, DEV_IDLE, w.work) EXCEPT !.brk = TRUE]

\* nothing to solve: back to IDLE
SwitchIdle(w) == [SetSW(w, DEV_IDLE, 0) EXCEPT !.brk = TRUE]

\* WorkPass without the comparison of the phash
WorkPassUncompared(w, id, bt, diff, F) ==
    IF WorkExpired(bt, w.out, w.now)
    THEN SwitchIdle(w)
    ELSE IF SolvePending(w.h_solve[id])
    THEN ReportSolve(w, id, F)
    ELSE LaunchSolve(w, id, bt, diff, F)

\* one pass of the solve loop for queue[id], the queue being ready
WorkPass(w, id, bt, diff, F) ==
    IF PhashChanged(w.h_bt[id], bt)
    THEN BlockUpdate(w)
    ELSE IF WorkExpired(bt, w.out, w.now)
    THEN SwitchIdle(w)
    ELSE IF SolvePending(w.h_solve[id])
    THEN ReportSolve(w, id, F)
    ELSE LaunchSolve(w, id, bt, diff, F)

\* WorkIter that waits for a busy queue instead of skipping it
WorkIterWait(w, id, bt, diff, F) ==
    IF w.done \/ w.brk
    THEN w
    ELSE WorkPass([TryFinish(w, "clFinish(entry)", id, F)
                      EXCEPT !.polled = @ \cup {id}], id, bt, diff, F)

\* one pass of the solve loop for queue[id]
WorkIter(w, id, bt, diff, F) ==
    IF w.done \/ w.brk \/ ~QueueReady(w, id, F)
    THEN w
    ELSE WorkPass([w EXCEPT !.polled = @ \cup {id}], id, bt, diff, F)

InitBlock(w, bt, F) ==
    IF w.status = DEV_INIT
    THEN Then(InitIter(w, 0, bt, F), LAMBDA w1 :
              [InitIter(w1, 1, bt, F) EXCEPT !.brk = FALSE])
    ELSE w

WorkBlock(w, bt, diff, F) ==
    IF w.status = DEV_WORK /\ ~w.done
    THEN Then(WorkIter(w, 0, bt, diff, F), LAMBDA w1 :
              WorkIter(w1, 1, bt, diff, F))
    ELSE w

\* the default return
Return(w) == IF w.done THEN w ELSE [w EXCEPT !.ret = "VERROR"]

\* the whole call on an attached context
TickBody(w, bt, diff, F) ==
    Then([w EXCEPT !.hist = <<[status |-> w.status, work |-> w.work]>>],
         LAMBDA w0 :
        IF Unusable(w0.status)
        THEN [w0 EXCEPT !.ret = "VETIMEOUT", !.done = TRUE]
        ELSE IF QCallFails(w0, "clGetCommandQueueInfo", 0,
                           IF "clGetCommandQueueInfo" \in F
                           THEN {Idx("clGetCommandQueueInfo", 0)} ELSE {})
        THEN Fail(w0)
        ELSE
    Then(InitBlock(w0, bt, F), LAMBDA w1 :
    Then(IdleGate(w1, bt), LAMBDA w2 :
    Then(WorkBlock(w2, bt, diff, F), LAMBDA w3 : Return(w3)))))

\* the call on state m at time t
TickFn(m, bt, diff, F, t) ==
    IF ~m.ctx.peach
    THEN [m EXCEPT !.ret = "VERROR"]
    ELSE Then(TickBody(World(m, t), bt, diff, F), LAMBDA w : Result(m, w, TRUE))

-----------------------------------------------------------------------------
(* The Stratum pool client (stratum.c).  Text is a sequence of one-character *)
(* strings.  A JSON line is the sequence of its members, each a token with  *)
(* its key, the type of its value and the value; the receive buffer and the *)
(* inbound stream are sequences of tokens, the newline being a token, and a *)
(* token takes one byte of the buffer.                                      *)

\* sizes of the text buffers of stratum_parse_job, less the terminator
JobIdChars == 63
HashChars == 127
BnumChars == 31
NumChars == 15

\* the descriptor socket() returns
Socket == 3

HexDigits == <<"0", "1", "2", "3", "4", "5", "6", "7",
               "8", "9", "a", "b", "c", "d", "e", "f">>

IsHex(c) == \E i \in 1..16 : HexDigits[i] = c

HexVal(c) == (CHOOSE i \in 1..16 : HexDigits[i] = c) - 1

\* a digit strtoul accepts in this base
IsDigit(c, base) == IsHex(c) /\ HexVal(c) < base

Take(s, n) == SubSeq(s, 1, Min(Len(s), n))

Drop(s, n) == SubSeq(s, n + 1, Len(s))

Zeros(n) == [i \in 1..n |-> 0]

\* v * base + d in 32 bits; v is four bytes, least significant first
MulAdd(v, base, d) ==
    LET b1 == (v[1] * base) + d
        b2 == (v[2] * base) + (b1 \div 256)
        b3 == (v[3] * base) + (b2 \div 256)
        b4 == (v[4] * base) + (b3 \div 256)
    IN  <<b1 % 256, b2 % 256, b3 % 256, b4 % 256>>

\* strtoul, strtol, atoi: the leading digits of s in this base added to v
RECURSIVE StrToUL(_, _, _)
StrToUL(s, base, v) ==
    IF s = <<>> THEN v
    ELSE IF ~IsDigit(Head(s), base) THEN v
    ELSE StrToUL(Tail(s), base, MulAdd(v, base, HexVal(Head(s))))

\* strncmp(s, "0x", 2) == 0
Has0x(s) == Len(s) >= 2 /\ s[1] = "0" /\ s[2] = "x"

\* the pairs i..n of hex written to out; sscanf stops the copy at a pair
\* that does not start with a hex digit
RECURSIVE HexCopy(_, _, _, _)
HexCopy(hex, out, i, n) ==
    IF i > n THEN out
    ELSE IF ~IsHex(hex[2 * i - 1]) THEN out
    ELSE HexCopy(hex,
                 [out EXCEPT ![i] =
                     IF IsHex(hex[2 * i])
                     THEN (16 * HexVal(hex[2 * i - 1])) + HexVal(hex[2 * i])
                     ELSE HexVal(hex[2 * i - 1])],
                 i + 1, n)

\* hex_to_bytes(hex, out, outlen): out after the call
HexToBytes(hex, out) ==
    HexCopy(hex, out, 1, Min(Len(hex), 2 * Len(out)) \div 2)

\* bytes_to_hex
RECURSIVE BytesToHex(_)
BytesToHex(bytes) ==
    IF bytes = <<>> THEN <<>>
    ELSE <<HexDigits[(Head(bytes) \div 16) + 1],
           HexDigits[(Head(bytes) % 16) + 1]>> \o BytesToHex(Tail(bytes))

\* JSON members; t is the type of the value: "str", "num", "bool", "null",
\* "arr"; v the text of a string or a boolean, n a number, f the elements of
\* an array
Token(k, t, v, n, f) == [k |-> k, t |-> t, v |-> v, n |-> n, f |-> f]
NL == Token("\n", "", "", 0, <<>>)
Method(m) == Token("method", "str", m, 0, <<>>)
MsgId(n) == Token("id", "num", "", n, <<>>)
NullId == Token("id", "null", "", 0, <<>>)
JsonResult(b) == Token("result", "bool", b, 0, <<>>)
NullError == Token("error", "null", "", 0, <<>>)
Params(f) == Token("params", "arr", "", 0, f)
NoToken == Token("", "", "", 0, <<>>)

\* an element of a params array: quoted text or bare text
Quoted(s) == [q |-> TRUE, s |-> s]
Bare(s) == [q |-> FALSE, s |-> s]

\* the first member of the line with this key, NoToken when there is none
Member(msg, key) ==
    IF \E i \in DOMAIN msg : msg[i].k = key
    THEN msg[CHOOSE i \in DOMAIN msg :
                 msg[i].k = key /\ \A j \in 1..(i - 1) : msg[j].k # key]
    ELSE NoToken

\* json_get_string: return value (found or NULL) and *out
JsonGetString(msg, key) ==
    IF Member(msg, key).t = "str"
    THEN [ret |-> 0, out |-> Member(msg, key).v]
    ELSE [ret |-> -1, out |-> ""]

\* json_get_int: return value and *out
JsonGetInt(msg, key) ==
    IF Member(msg, key) = NoToken THEN [ret |-> -1, out |-> 0]
    ELSE [ret |-> 0, out |-> Member(msg, key).n]

\* json_get_bool: return value and *out
JsonGetBool(msg, key) ==
    IF Member(msg, key).t = "bool"
    THEN [ret |-> 0, out |-> IF Member(msg, key).v = "true" THEN 1 ELSE 0]
    ELSE [ret |-> -1, out |-> 0]

\* strstr(msg, "\"result\":true") || strstr(msg, "\"result\": true")
HasResultTrue(msg) == \E i \in DOMAIN msg : msg[i] = JsonResult("true")

\* STRATUM_JOB
ZeroJob ==
    [job_id |-> <<>>, phash |-> Zeros(HashBytes), bnum |-> Zeros(BnumBytes),
     difficulty |-> Zeros(4), time0 |-> Zeros(4), mroot |-> Zeros(HashBytes),
     valid |-> 0, job_seq |-> 0]

\* the BTRAILER fields stratum_get_job writes
ZeroTrailer ==
    [phash |-> Zeros(HashBytes), bnum |-> Zeros(BnumBytes),
     mroot |-> Zeros(HashBytes), difficulty |-> Zeros(4), time0 |-> Zeros(4),
     tcount |-> 0, nonce |-> Zeros(HashBytes)]

Wallet == <<"w">>
Worker == <<"k">>

\* stratum_init
StratumInit ==
    [sd |-> -1, state |-> STRATUM_DISCONNECTED, msg_id |-> 1,
     difficulty |-> DefaultDifficulty, wallet |-> Wallet, worker |-> Worker,
     recv_buf |-> <<>>, current_job |-> ZeroJob, pending_job |-> ZeroJob,
     accepted_shares |-> 0, rejected_shares |-> 0]

\* the outcome of a client call: the context, the lines sent, the return
\* value, the lines handled, whether the call has returned
Outcome(c, sent, ret) ==
    [ctx |-> c, sent |-> sent, ret |-> ret, handled |-> <<>>, done |-> FALSE]

\* a request line as sent, newline included
Request(id, method, params) ==
    [id |-> id, method |-> method, params |-> params, nl |-> TRUE]

AuthorizeRequest(c) ==
    Request(c.msg_id, "mining.authorize",
            <<c.wallet \o <<".">> \o c.worker, <<"x">>>>)

\* Disconnect that forgets the pending job
DisconnectDropJob(c) ==
    [c EXCEPT !.sd = -1, !.state = STRATUM_DISCONNECTED, !.recv_buf = <<>>,
              !.pending_job = ZeroJob]

\* Disconnect that leaves the descriptor in place
DisconnectKeepSocket(c) ==
    [c EXCEPT !.state = STRATUM_DISCONNECTED, !.recv_buf = <<>>]

\* stratum_disconnect
Disconnect(c) ==
    [c EXCEPT !.sd = -1, !.state = STRATUM_DISCONNECTED, !.recv_buf = <<>>]

\* ConnectFn that returns from a failed name lookup without resetting the
\* state
ConnectFnLookupReturn(c, F) ==
    IF "gethostbyname" \in F
    THEN Outcome([c EXCEPT !.sd = -1, !.state = STRATUM_CONNECTING], <<>>, -1)
    ELSE IF "socket" \in F \/ "connect" \in F
    THEN Outcome([c EXCEPT !.sd = -1, !.state = STRATUM_DISCONNECTED],
                 <<>>, -1)
    ELSE IF "send" \in F
    THEN Outcome(Disconnect([c EXCEPT !.sd = Socket, !.msg_id = @ + 1]),
                 <<>>, -1)
    ELSE Outcome([c EXCEPT !.sd = Socket, !.state = STRATUM_AUTHORIZING,
                           !.msg_id = @ + 1],
                 <<AuthorizeRequest(c)>>, 0)

\* stratum_connect; F holds the calls that fail
ConnectFn(c, F) ==
    IF "gethostbyname" \in F \/ "socket" \in F \/ "connect" \in F
    THEN Outcome([c EXCEPT !.sd = -1, !.state = STRATUM_DISCONNECTED],
                 <<>>, -1)
    ELSE IF "send" \in F
    THEN Outcome(Disconnect([c EXCEPT !.sd = Socket, !.msg_id = @ + 1]),
                 <<>>, -1)
    ELSE Outcome([c EXCEPT !.sd = Socket, !.state = STRATUM_AUTHORIZING,
                           !.msg_id = @ + 1],
                 <<AuthorizeRequest(c)>>, 0)

\* stratum_authorize
Authorize(o, F) ==
    IF "send" \in F
    THEN [o EXCEPT !.ctx.msg_id = @ + 1, !.ret = -1]
    ELSE [o EXCEPT !.ctx.msg_id = @ + 1,
                   !.ctx.state = STRATUM_AUTHORIZING,
                   !.sent = Append(@, AuthorizeRequest(o.ctx)),
                   !.ret = 0]

\* the text stratum_parse_job walks: the elements of the first params array,
\* then the members that follow it, each met at a comma with its quoted key
ParamsAt(msg) ==
    CHOOSE i \in DOMAIN msg :
        msg[i].k = "params" /\ \A j \in 1..(i - 1) : msg[j].k # "params"

KeyText(m) ==
    CASE m.k = "id" -> <<"i", "d">>
      [] m.k = "error" -> <<"e", "r", "r", "o", "r">>
      [] m.k = "result" -> <<"r", "e", "s", "u", "l", "t">>
      [] OTHER -> <<"m", "e", "t", "h", "o", "d">>

FieldStream(msg) ==
    msg[ParamsAt(msg)].f \o
        [j \in 1..(Len(msg) - ParamsAt(msg)) |->
            Quoted(KeyText(msg[ParamsAt(msg) + j]))]

\* the text of a quoted element, at most n characters of it
QuotedText(fs, i, n) ==
    IF i <= Len(fs) /\ fs[i].q THEN Take(fs[i].s, n) ELSE <<>>

\* the text of an element that may be bare
AnyText(fs, i, n) == IF i <= Len(fs) THEN Take(fs[i].s, n) ELSE <<>>

\* the difficulty byte of a job
ParseDifficulty(diff) ==
    IF Has0x(diff) THEN StrToUL(Drop(diff, 2), 16, Zeros(4))[1]
    ELSE StrToUL(diff, 10, Zeros(4))[1]

\* the four time0 bytes of a job
ParseTime0(time0) ==
    IF Has0x(time0) THEN StrToUL(Drop(time0, 2), 16, Zeros(4))
    ELSE StrToUL(time0, 10, Zeros(4))

\* StoreJob that counts a notify only when it names another job
StoreJobFresh(job, fs) ==
    [job EXCEPT
        !.job_id = QuotedText(fs, 1, JobIdChars),
        !.phash = HexToBytes(QuotedText(fs, 2, HashChars), @),
        !.bnum = HexToBytes(QuotedText(fs, 3, BnumChars), @),
        !.difficulty[1] = ParseDifficulty(AnyText(fs, 4, NumChars)),
        !.time0 = ParseTime0(AnyText(fs, 5, NumChars)),
        !.mroot = HexToBytes(QuotedText(fs, 6, HashChars), @),
        !.valid = 1,
        !.job_seq = IF job.job_id = QuotedText(fs, 1, JobIdChars)
                    THEN @ ELSE @ + 1]

\* the pending job after the stores of stratum_parse_job
StoreJob(job, fs) ==
    [job EXCEPT
        !.job_id = QuotedText(fs, 1, JobIdChars),
        !.phash = HexToBytes(QuotedText(fs, 2, HashChars), @),
        !.bnum = HexToBytes(QuotedText(fs, 3, BnumChars), @),
        !.difficulty[1] = ParseDifficulty(AnyText(fs, 4, NumChars)),
        !.time0 = ParseTime0(AnyText(fs, 5, NumChars)),
        !.mroot = HexToBytes(QuotedText(fs, 6, HashChars), @),
        !.valid = 1,
        !.job_seq = @ + 1]

\* stratum_parse_job: five commas must follow the opening bracket
ParseJob(c, msg) ==
    IF msg[ParamsAt(msg)].t # "arr" \/ Len(FieldStream(msg)) < 6
    THEN [ctx |-> c, ret |-> -1]
    ELSE [ctx |-> [c EXCEPT !.pending_job = StoreJob(@, FieldStream(msg))],
          ret |-> 0]

\* a 32-bit integer from its four bytes
IntOf(v) ==
    v[1] + (256 * v[2]) + (65536 * v[3])
        + 16777216 * (IF v[4] >= 128 THEN v[4] - 256 ELSE v[4])

\* atoi of the first element of the params array
FirstParamInt(msg) ==
    IF msg[ParamsAt(msg)].f # <<>> /\ ~msg[ParamsAt(msg)].f[1].q
    THEN IntOf(StrToUL(msg[ParamsAt(msg)].f[1].s, 10, Zeros(4)))
    ELSE 0

\* the notification branch of stratum_handle_message
HandleNotification(o, msg) ==
    IF JsonGetString(msg, "method").out = "mining.notify"
    THEN IF Member(msg, "params") # NoToken
         THEN [o EXCEPT !.ctx = ParseJob(o.ctx, msg).ctx, !.ret = 0]
         ELSE [o EXCEPT !.ret = 0]
    ELSE IF JsonGetString(msg, "method").out = "mining.set_difficulty"
    THEN IF Member(msg, "params").t = "arr" /\ FirstParamInt(msg) > 0
         THEN [o EXCEPT !.ctx.difficulty = FirstParamInt(msg), !.ret = 0]
         ELSE [o EXCEPT !.ret = 0]
    ELSE [o EXCEPT !.ret = 0]

\* the response branch in AUTHORIZING
AuthorizeResponse(o, msg) ==
    IF \/ JsonGetBool(msg, "result").ret = 0
              /\ JsonGetBool(msg, "result").out # 0
       \/ HasResultTrue(msg)
    THEN [o EXCEPT !.ctx.state = STRATUM_CONNECTED, !.ret = 0]
    ELSE [o EXCEPT !.ret = -1]

\* the response branch for share submissions
ShareResponse(o, msg) ==
    IF JsonGetBool(msg, "result").ret = 0
    THEN IF JsonGetBool(msg, "result").out # 0
         THEN [o EXCEPT !.ctx.accepted_shares = @ + 1, !.ret = 0]
         ELSE [o EXCEPT !.ctx.rejected_shares = @ + 1, !.ret = 0]
    ELSE IF HasResultTrue(msg)
    THEN [o EXCEPT !.ctx.accepted_shares = @ + 1, !.ret = 0]
    ELSE [o EXCEPT !.ret = 0]

\* stratum_handle_message
HandleMessage(o, msg, F) ==
    IF JsonGetString(msg, "method").ret = 0
    THEN HandleNotification(o, msg)
    ELSE IF JsonGetInt(msg, "id").ret = 0
    THEN IF o.ctx.state = STRATUM_SUBSCRIBING
         THEN IF Member(msg, "result") # NoToken
              THEN [Authorize([o EXCEPT !.ctx.state = STRATUM_AUTHORIZING], F)
                       EXCEPT !.ret = 0]
              ELSE [o EXCEPT !.ret = -1]
         ELSE IF o.ctx.state = STRATUM_AUTHORIZING
         THEN AuthorizeResponse(o, msg)
         ELSE ShareResponse(o, msg)
    ELSE [o EXCEPT !.ret = 0]

\* the index of the first newline of the buffer, 0 when it holds none
FirstNL(buf) ==
    IF \E i \in DOMAIN buf : buf[i] = NL
    THEN CHOOSE i \in DOMAIN buf :
             buf[i] = NL /\ \A j \in 1..(i - 1) : buf[j] # NL
    ELSE 0

\* ProcessFailure that keeps the connection
ProcessFailureKeep(o) == [o EXCEPT !.ret = -1, !.done = TRUE]

\* stratum_disconnect(ctx); return -1
ProcessFailure(o) ==
    [o EXCEPT !.ctx = Disconnect(o.ctx), !.ret = -1, !.done = TRUE]

\* the line at the head of the buffer
HeadLine(c) == Take(c.recv_buf, FirstNL(c.recv_buf) - 1)

\* the loop over the complete lines of the buffer; AfterLine is the loop
\* body after stratum_handle_message has returned h
RECURSIVE ProcessLines(_, _), AfterLine(_, _, _)
AfterLine(o, h, F) ==
    IF h.ret < 0
    THEN ProcessFailure([h EXCEPT !.handled = Append(@, HeadLine(o.ctx))])
    ELSE ProcessLines(
             [h EXCEPT !.handled = Append(@, HeadLine(o.ctx)),
                       !.ctx.recv_buf =
                           Drop(o.ctx.recv_buf, FirstNL(o.ctx.recv_buf))],
             F)

ProcessLines(o, F) ==
    IF FirstNL(o.ctx.recv_buf) = 0 THEN o
    ELSE AfterLine(o, HandleMessage(o, HeadLine(o.ctx), F), F)

\* ClearFull that waits until the buffer is full
ClearFullLate(o) ==
    IF ~o.done /\ Len(o.ctx.recv_buf) >= STRATUM_BUF_SIZE
    THEN [o EXCEPT !.ctx.recv_buf = <<>>]
    ELSE o

\* the guard against a full buffer
ClearFull(o) ==
    IF ~o.done /\ Len(o.ctx.recv_buf) >= STRATUM_BUF_SIZE - BufSlack
    THEN [o EXCEPT !.ctx.recv_buf = <<>>]
    ELSE o

\* the bytes recv may return at most
RecvRoom(c) == STRATUM_BUF_SIZE - Len(c.recv_buf) - 1

\* the POLLIN branch of stratum_process; rcv is what recv returns: "data",
\* "eof" (0), "eagain" or "error"
ProcessRead(o, rcv, data, F) ==
    IF rcv = "eof" \/ rcv = "error" THEN ProcessFailure(o)
    ELSE IF rcv = "eagain" THEN [o EXCEPT !.ret = 0, !.done = TRUE]
    ELSE ClearFull(ProcessLines([o EXCEPT !.ctx.recv_buf = @ \o data], F))

\* the POLLERR | POLLHUP check
ProcessHangup(o, revents) ==
    IF o.done THEN o
    ELSE IF revents \cap {"POLLERR", "POLLHUP"} # {}
    THEN ProcessFailure(o)
    ELSE [o EXCEPT !.ret = 0, !.done = TRUE]

\* ProcessFn that looks at the hangup before it reads
ProcessFnHangupFirst(c, revents, rcv, data, F) ==
    IF c.sd < 0 \/ c.state = STRATUM_DISCONNECTED
    THEN Outcome(c, <<>>, -1)
    ELSE IF revents = {} THEN Outcome(c, <<>>, 0)
    ELSE IF revents \cap {"POLLERR", "POLLHUP"} # {}
    THEN ProcessFailure(Outcome(c, <<>>, 0))
    ELSE ProcessHangup(ProcessRead(Outcome(c, <<>>, 0), rcv, data, F), revents)

\* stratum_process; revents is what poll reports, empty on a timeout
ProcessFn(c, revents, rcv, data, F) ==
    IF c.sd < 0 \/ c.state = STRATUM_DISCONNECTED
    THEN Outcome(c, <<>>, -1)
    ELSE IF revents = {} THEN Outcome(c, <<>>, 0)
    ELSE IF "POLLIN" \in revents
    THEN ProcessHangup(ProcessRead(Outcome(c, <<>>, 0), rcv, data, F), revents)
    ELSE ProcessHangup(Outcome(c, <<>>, 0), revents)

\* SubmitRequest that numbers every request 1
SubmitRequestOne(c, job_id, nonce, hash) ==
    Request(1, "mining.submit",
            <<c.wallet \o <<".">> \o c.worker, job_id,
              BytesToHex(nonce), BytesToHex(hash)>>)

\* the line stratum_submit formats
SubmitRequest(c, job_id, nonce, hash) ==
    Request(c.msg_id, "mining.submit",
            <<c.wallet \o <<".">> \o c.worker, job_id,
              BytesToHex(nonce), BytesToHex(hash)>>)

\* SubmitAllowed in any state with a socket
SubmitAllowedOpen(c) == c.sd >= 0

\* the state check of stratum_submit
SubmitAllowed(c) == c.sd >= 0 /\ c.state = STRATUM_CONNECTED

\* stratum_submit
SubmitFn(c, job_id, nonce, hash, F) ==
    IF ~SubmitAllowed(c) THEN Outcome(c, <<>>, -1)
    ELSE IF "send" \in F
    THEN Outcome([c EXCEPT !.msg_id = @ + 1], <<>>, -1)
    ELSE Outcome([c EXCEPT !.msg_id = @ + 1],
                 <<SubmitRequest(c, job_id, nonce, hash)>>, 0)

\* stratum_has_job
HasJob(c) ==
    c.pending_job.valid # 0 /\ c.pending_job.job_seq # c.current_job.job_seq

\* CurrentAfterGet that copies the fields but not the sequence number
CurrentAfterGetNoSeq(c) ==
    [c.pending_job EXCEPT !.job_seq = c.current_job.job_seq]

\* memcpy(&ctx->current_job, &ctx->pending_job, sizeof(STRATUM_JOB))
CurrentAfterGet(c) == c.pending_job

\* JobTrailer that announces one transaction
JobTrailerCounted(job) ==
    [ZeroTrailer EXCEPT !.phash = job.phash, !.bnum = job.bnum,
                        !.mroot = job.mroot,
                        !.difficulty[1] = job.difficulty[1],
                        !.time0 = job.time0, !.tcount = 1]

\* the trailer stratum_get_job writes
JobTrailer(job) ==
    [ZeroTrailer EXCEPT !.phash = job.phash, !.bnum = job.bnum,
                        !.mroot = job.mroot,
                        !.difficulty[1] = job.difficulty[1],
                        !.time0 = job.time0]

\* stratum_get_job: the context, the caller's trailer, the return value
GetJobFn(c, bt) ==
    IF c.pending_job.valid = 0 THEN [ctx |-> c, bt |-> bt, ret |-> -1]
    ELSE [ctx |-> [c EXCEPT !.current_job = CurrentAfterGet(c)],
          bt |-> JobTrailer(CurrentAfterGet(c)), ret |-> 0]

\* stratum_is_connected
IsConnected(c) == c.sd >= 0 /\ c.state >= STRATUM_SUBSCRIBING

-----------------------------------------------------------------------------
(* The state machine *)

\* the current state as the record the calls work on
M == [ctx |-> ctx, ocl |-> ocl, dev |-> dev, out |-> out_bt,
      ret |-> "none", ev |-> World([ctx |-> ctx, ocl |-> ocl, dev |-> dev,
                                    out |-> out_bt], now)]

\* ticks of the current build cycle that launched a build kernel, after a
\* tick with result r
LaunchTicks(r) ==
    IF r.ctx.status # DEV_INIT \/ r.ctx.work = 0 THEN 0
    ELSE IF r.ev.builds = <<>> THEN lticks
    ELSE IF r.ev.entry THEN 1 ELSE lticks + 1

\* the state after device discovery, the device drawn from CU x WG
InitOn(CU, WG) ==
    /\ \E cu \in CU, mwg \in WG :
          \E d \in {Discovered(cu, mwg, 0)} :
              ctx = d.ctx /\ ocl = d.ocl /\ dev = d.dev
    /\ out_bt = ZeroBT
    /\ now = 0
    /\ call = Call("enumerate", "1")
    /\ lticks = 0
    /\ sols = [n |-> 0, rep |-> <<>>]
    /\ strat = StratumInit
    /\ pipe = [data |-> <<>>, open |-> FALSE]
    /\ wire = <<>>
    /\ job_bt = ZeroTrailer

Init == InitOn(ComputeUnits, WorkGroupSizes)

\* device discovery after a detach
EnumerateOn(CU, WG) ==
    /\ ~ctx.peach
    /\ \E cu \in CU, mwg \in WG :
          \E d \in {Discovered(cu, mwg, now)} :
              ctx' = d.ctx /\ ocl' = d.ocl /\ dev' = d.dev
    /\ call' = Call("enumerate", "1")
    /\ lticks' = 0
    /\ UNCHANGED <<out_bt, now, sols, svars>>

Enumerate == EnumerateOn(ComputeUnits, WorkGroupSizes)

Attach(F, garbage) ==
    /\ ctx.status = DEV_NULL
    /\ \E r \in {AttachFn(M, F, garbage)} :
          /\ ctx' = r.ctx /\ ocl' = r.ocl /\ dev' = r.dev
          /\ call' = Call("attach", r.ret)
    /\ lticks' = 0
    /\ UNCHANGED <<out_bt, now, sols, svars>>

Detach ==
    /\ \E r \in {DetachFn(M)} :
          /\ ctx' = r.ctx /\ ocl' = r.ocl /\ dev' = r.dev
          /\ call' = Call("detach", r.ret)
    /\ lticks' = 0
    /\ UNCHANGED <<out_bt, now, sols, svars>>

Tick(bt, diff, F) ==
    /\ \E r \in {TickFn(M, bt, diff, F, now)} :
          /\ r.ev.solves = <<>> \/ r.ctx.work <= MaxSolves * ctx.threads
          /\ ctx' = r.ctx /\ ocl' = r.ocl /\ dev' = r.dev
          /\ out_bt' = r.out
          /\ call' = Call("tick", r.ret)
          /\ lticks' = IF ctx.peach THEN LaunchTicks(r) ELSE lticks
          /\ sols' = IF r.ret = "VEOK"
                     THEN [sols EXCEPT !.rep = Append(@, r.out.nonce.sn)]
                     ELSE sols
    /\ UNCHANGED <<now, svars>>

\* the device completes the commands of queue[i]; a solution a solve kernel
\* finds carries the serial sn
DeviceStepOn(i, sn) ==
    /\ ctx.peach
    /\ dev.q[i] # <<>>
    /\ \E cs \in Orders(dev.q[i], i = 0 /\ ocl.ooo), found \in BOOLEAN :
          /\ found => \E k \in DOMAIN cs : cs[k].op = "solve"
          /\ \E r \in {Result(M, [RunCmds([World(M, now) EXCEPT !.sn = sn],
                                             i, cs, found)
                                     EXCEPT !.q[i] = <<>>], TRUE)} :
                 /\ dev' = r.dev /\ ocl' = r.ocl
                 /\ sols' = IF found /\ sn # 0 THEN [sols EXCEPT !.n = sn]
                            ELSE sols
    /\ UNCHANGED <<ctx, out_bt, now, call, lticks, svars>>

\* the device completes the commands of queue[i]
DeviceStep(i) == DeviceStepOn(i, 0)

Clock ==
    /\ now < MaxTime
    /\ now' = now + 1
    /\ UNCHANGED <<ctx, ocl, dev, out_bt, call, lticks, sols, svars>>

\* at most one API call of an operation fails; the primary queue is missing
\* only when its out-of-order creation and its in-order fallback both fail
AttachFaults ==
    {{}} \cup {{s} : s \in AttachSites}
         \cup {{"clCreateCommandQueue0_ooo", "clCreateCommandQueue0"}}
TickFaults == {{}} \cup {{s} : s \in TickSites}

\* what a solve buffer may hold before its first fill
Garbage == {ZeroSolve, FoundSolve(0)}

Next ==
    \/ Enumerate
    \/ Attach({}, ZeroSolve)
    \/ Detach
    \/ \E bt \in Trailers : Tick(bt, 0, {})
    \/ \E i \in 0..1 : DeviceStep(i)
    \/ Clock

Spec == Init /\ [][Next]_vars

\* the device and the trailers of the runs with failing API calls
FaultUnits == {2}
FaultGroupSizes == {1}
FaultTrailers == {bt \in Trailers : bt.phash = 1}

InitFault == InitOn(FaultUnits, FaultGroupSizes)

EnumerateFault == EnumerateOn(FaultUnits, FaultGroupSizes)

NextFault ==
    \/ EnumerateFault
    \/ \E F \in AttachFaults, g \in Garbage : Attach(F, g)
    \/ Detach
    \/ \E bt \in FaultTrailers, F \in TickFaults : Tick(bt, 0, F)
    \/ \E i \in 0..1 : DeviceStep(i)
    \/ Clock

SpecFault == InitFault /\ [][NextFault]_vars

\* the runs that follow solutions through the driver: the caller moves to
\* the next block number under the same phash, the device stamps the first
\* MaxFound solutions it finds with a serial
SolveTrailers == [phash : {1}, bnum : {1, 2}, tcount : {1}, time0 : {0},
                  difficulty : {2}, nonce : {ZeroNonce}]

InitSolve == InitOn(FaultUnits, FaultGroupSizes)

TickSolve(bt) ==
    /\ Len(sols.rep) <= MaxFound
    /\ Tick(bt, 0, {})

DeviceStepSerial(i) ==
    DeviceStepOn(i, IF sols.n < MaxFound THEN sols.n + 1 ELSE 0)

NextSolve ==
    \/ Attach({}, ZeroSolve)
    \/ \E bt \in SolveTrailers : TickSolve(bt)
    \/ \E i \in 0..1 : DeviceStepSerial(i)

SpecSolve == InitSolve /\ [][NextSolve]_vars

\* the runs that follow a build on devices whose work-group size may not
\* divide the length of the map
TileGroupSizes == {1, 2, 3}

InitTile == InitOn(ComputeUnits, TileGroupSizes)

NextTile ==
    \/ Attach({}, ZeroSolve)
    \/ \E bt \in FaultTrailers : Tick(bt, 0, {})
    \/ \E i \in 0..1 : DeviceStep(i)

SpecTile == InitTile /\ [][NextTile]_vars

(* The client and the pool *)

\* a text of n characters c
Fill(c, n) == [i \in 1..n |-> c]

\* the params of the notifies the pool sends: job id, phash, bnum,
\* difficulty, time0, mroot
ExampleParams ==
    <<Quoted(<<"j", "1">>), Quoted(Fill("a", 2 * HashBytes)),
      Quoted(<<"0", "1">> \o Fill("0", 2 * (BnumBytes - 1))),
      Quoted(<<"8">>),
      Quoted(<<"6", "6", "d", "d", "e", "e", "0", "0">>),
      Quoted(Fill("b", 2 * HashBytes)), Bare(<<"t">>)>>

NotifyParams ==
    { ExampleParams,
      <<Quoted(<<"b">>), Quoted(Fill("c", 2 * HashBytes)),
        Quoted(Fill("2", 2 * BnumBytes)), Bare(<<"9">>),
        Quoted(<<"0", "x", "1", "f", "f">>),
        Quoted(Fill("d", 2 * HashBytes)), Bare(<<"t">>)>>,
      <<Quoted(<<"s">>), Quoted(<<"0", "f">>), Bare(<<"7">>),
        Quoted(<<"0", "x", "1", "0">>), Bare(<<"5">>),
        Quoted(<<"g", "1">>)>>,
      <<Quoted(<<"t">>), Quoted(Fill("e", 2 * HashBytes)),
        Quoted(Fill("3", 2 * BnumBytes))>>,
      <<Quoted(<<"u">>), Quoted(Fill("c", 2 * HashBytes)),
        Bare(Fill("2", 2 * BnumBytes)), Bare(<<"9">>), Bare(<<"5">>),
        Quoted(Fill("d", 2 * HashBytes))>> }

\* the lines the pool sends: notifies
NotifyLines ==
    {<<NullId, Method("mining.notify"), Params(f)>> : f \in NotifyParams}

\* the lines the pool sends: responses, with and without result and id,
\* and a difficulty update
ResponseLines ==
    {<<MsgId(n), JsonResult(b)>> : n \in 1..2, b \in {"true", "false"}}
    \cup {<<MsgId(1), NullError>>, <<JsonResult("true")>>,
          <<Method("mining.set_difficulty"), Params(<<Bare(<<"5">>)>>)>>}

PoolLines == NotifyLines \cup ResponseLines

\* what the caller passes to stratum_submit
JobIds == {<<"j", "1">>}
Hashes == {Fill(171, HashBytes), <<0>> \o Fill(15, HashBytes - 1)}

\* what poll reports
Revents == {{}, {"POLLIN"}, {"POLLIN", "POLLHUP"}, {"POLLHUP"}, {"POLLERR"}}

\* the ids and methods of the lines a call sent
Sent(r) == [i \in DOMAIN r.sent |->
               [id |-> r.sent[i].id, method |-> r.sent[i].method]]

\* the socket after a call: a closed socket holds no data
PipeAfter(c, data, open) ==
    IF c.sd < 0 THEN [data |-> <<>>, open |-> FALSE]
    ELSE [data |-> data, open |-> open]

StratumConnect(F) ==
    /\ strat.msg_id <= MaxMsgId
    /\ \E r \in {ConnectFn(strat, F)} :
          /\ strat' = r.ctx
          /\ wire' = wire \o Sent(r)
          /\ pipe' = PipeAfter(r.ctx, <<>>, TRUE)
    /\ UNCHANGED <<job_bt, dvars>>

StratumDisconnect ==
    /\ strat' = Disconnect(strat)
    /\ pipe' = [data |-> <<>>, open |-> FALSE]
    /\ UNCHANGED <<wire, job_bt, dvars>>

\* what the socket can deliver: data when the pool has sent some, end of
\* file and hangup once the pool has closed, an error at any time
Deliverable(revents, rcv, n) ==
    /\ "POLLHUP" \in revents => ~pipe.open
    /\ "POLLIN" \notin revents => rcv = "data" /\ n = 0
    /\ "POLLIN" \in revents =>
          \/ rcv = "data" /\ n >= 1 /\ n <= Len(pipe.data)
                /\ n <= RecvRoom(strat)
          \/ rcv = "eof" /\ n = 0 /\ pipe.data = <<>> /\ ~pipe.open
          \/ rcv \in {"eagain", "error"} /\ n = 0 /\ revents = {"POLLIN"}

StratumProcess(revents, rcv, n) ==
    /\ Deliverable(revents, rcv, n)
    /\ \E r \in {ProcessFn(strat, revents, rcv, Take(pipe.data, n), {})} :
          /\ r.ctx.pending_job.job_seq <= MaxSeq
          /\ r.ctx.accepted_shares + r.ctx.rejected_shares <= MaxShares
          /\ strat' = r.ctx
          /\ wire' = wire \o Sent(r)
          /\ pipe' = PipeAfter(r.ctx,
                               IF strat.sd < 0 THEN pipe.data
                               ELSE Drop(pipe.data, n), pipe.open)
    /\ UNCHANGED <<job_bt, dvars>>

StratumSubmit(job_id, nonce, hash, F) ==
    /\ strat.msg_id <= MaxMsgId
    /\ \E r \in {SubmitFn(strat, job_id, nonce, hash, F)} :
          /\ strat' = r.ctx
          /\ wire' = wire \o Sent(r)
    /\ UNCHANGED <<pipe, job_bt, dvars>>

StratumGetJob ==
    /\ \E r \in {GetJobFn(strat, job_bt)} :
          /\ strat' = r.ctx
          /\ job_bt' = r.bt
    /\ UNCHANGED <<pipe, wire, dvars>>

\* the pool writes a line to the socket
PoolSend(line) ==
    /\ strat.sd >= 0 /\ pipe.open
    /\ Len(pipe.data) + Len(line) + 1 <= MaxPipe
    /\ pipe' = [pipe EXCEPT !.data = @ \o line \o <<NL>>]
    /\ UNCHANGED <<strat, wire, job_bt, dvars>>

\* the pool closes the connection
PoolClose ==
    /\ strat.sd >= 0 /\ pipe.open
    /\ pipe' = [pipe EXCEPT !.open = FALSE]
    /\ UNCHANGED <<strat, wire, job_bt, dvars>>

InitStratum == InitOn(FaultUnits, FaultGroupSizes)

ConnectFaults == {{}, {"gethostbyname"}, {"socket"}, {"connect"}, {"send"}}

\* the client against a pool that answers requests; the socket delivers
\* the stream in pieces of any size
NextStratum ==
    \/ \E F \in ConnectFaults : StratumConnect(F)
    \/ StratumDisconnect
    \/ \E revents \in Revents, rcv \in {"data", "eof", "eagain", "error"},
          n \in 0..MaxPipe : StratumProcess(revents, rcv, n)
    \/ \E job_id \in JobIds, nonce \in Hashes, hash \in Hashes,
          F \in {{}, {"send"}} : StratumSubmit(job_id, nonce, hash, F)
    \/ StratumGetJob
    \/ \E line \in ResponseLines : PoolSend(line)
    \/ PoolClose

SpecStratum == InitStratum /\ [][NextStratum]_vars

\* the lines of the runs that follow jobs through the client
JobLines == NotifyLines \cup {<<MsgId(1), JsonResult("true")>>}

\* the client against a pool that hands out jobs; the socket delivers whole
\* lines and no call fails
NextJobs ==
    \/ StratumConnect({})
    \/ StratumDisconnect
    \/ \E revents \in {{}, {"POLLIN"}} :
          StratumProcess(revents, "data",
                         IF revents = {} THEN 0 ELSE Len(pipe.data))
    \/ \E job_id \in JobIds, nonce \in Hashes, hash \in Hashes :
          StratumSubmit(job_id, nonce, hash, {})
    \/ StratumGetJob
    \/ \E line \in JobLines : PoolSend(line)

SpecJobs == InitStratum /\ [][NextJobs]_vars

\* what the pool writes to the socket at once: a member of a line or the
\* newline that ends it
Fragments == {<<MsgId(1)>>, <<JsonResult("true")>>, <<NL>>}

\* the pool writes part of a line
PoolWrite(part) ==
    /\ strat.sd >= 0 /\ pipe.open
    /\ Len(pipe.data) + Len(part) <= MaxPipe
    /\ pipe' = [pipe EXCEPT !.data = @ \o part]
    /\ UNCHANGED <<strat, wire, job_bt, dvars>>

\* the client against a pool that writes lines of any length, empty lines
\* included, piece by piece
NextBuffer ==
    \/ StratumConnect({})
    \/ StratumDisconnect
    \/ \E revents \in Revents, rcv \in {"data", "eof", "eagain", "error"},
          n \in 0..MaxPipe : StratumProcess(revents, rcv, n)
    \/ \E part \in Fragments : PoolWrite(part)
    \/ PoolClose

SpecBuffer == InitStratum /\ [][NextBuffer]_vars

\* a little-endian byte string as a number
RECURSIVE LeNum(_)
LeNum(b) == IF b = <<>> THEN 0 ELSE Head(b) + (256 * LeNum(Tail(b)))

\* the trailer of stratum_get_job as peach_solve_opencl reads it: phash
\* and bnum compared as a whole, get32 of tcount and time0, the first
\* byte of difficulty
AsBTrailer(t) ==
    [phash |-> LeNum(t.phash), bnum |-> LeNum(t.bnum), tcount |-> t.tcount,
     time0 |-> LeNum(t.time0), difficulty |-> t.difficulty[1],
     nonce |-> ZeroNonce]

\* a tick with the trailer of the last get_job, as get_job left it
TickJob ==
    /\ strat.current_job.valid # 0
    /\ Tick(AsBTrailer(job_bt), 0, {})

\* a miner that takes its trailers from the pool: jobs arrive as whole
\* lines, get_job converts them and the device is ticked with the result
NextMine ==
    \/ StratumConnect({})
    \/ StratumProcess({"POLLIN"}, "data", Len(pipe.data))
    \/ StratumGetJob
    \/ \E line \in JobLines : PoolSend(line)
    \/ Attach({}, ZeroSolve)
    \/ TickJob
    \/ \E i \in 0..1 : DeviceStep(i)

SpecMine == InitStratum /\ [][NextMine]_vars

-----------------------------------------------------------------------------
(* Properties of the driver *)

\* every cell of the device map was built under phash p
MapUnder(d, p) == \A k \in DOMAIN d.d_map : d.d_map[k] = p

\* some queue has completed all its commands
SomeQueueIdle == \E i \in 0..1 : dev.q[i] = <<>>

C2_FailIsTerminal ==
    ctx.status = DEV_FAIL =>
        \A bt \in Trailers, F \in TickFaults :
            \A r \in {TickFn(M, bt, 0, F, now)} :
                /\ r.ret = "VETIMEOUT"
                /\ r.ctx = ctx /\ r.ocl = ocl /\ r.dev = dev /\ r.out = out_bt
                /\ r.ev.builds = <<>> /\ r.ev.solves = <<>>

\* C2 witness: a tick on a failed device has returned TIMEOUT
C2_TimeoutOnFailed ==
    ctx.status = DEV_FAIL /\ ctx.peach /\ call.op = "tick" /\ call.ret = "VETIMEOUT"

\* C3 as stated: if a device-API call made during a tick reports an error,
\* the clearing and synchronisation calls at build entry and after a solve
\* included, the tick sets status FAIL and launches no further work.
C3_AnyErrorFails ==
    \A bt \in Trailers, F \in TickFaults :
        \A r \in {TickFn(M, bt, 0, F, now)} :
            (ctx.peach /\ r.ev.ignored # {}) =>
                /\ r.ctx.status = DEV_FAIL
                /\ r.ev.builds = <<>> /\ r.ev.solves = <<>>

\* C4 as stated: on a failed device, detach followed by an attach whose API
\* calls all succeed brings the device to status INIT.
C4_DetachAttachRecovers ==
    ctx.status = DEV_FAIL =>
        \A r \in {AttachFn(DetachFn(M), {}, ZeroSolve)} :
            r.ctx.status = DEV_INIT /\ r.ret = "VEOK"

\* C5: whatever the context, attached, partially attached or detached, no
\* resource has been released more than once, a detach releases each resource
\* at most once, and a second detach leaves the context as the first left it.
C5_DetachReleasesOnce ==
    /\ \A s \in Slots : ocl.rel[s] <= 1
    /\ \A d \in {DetachFn(M)} : \A d2 \in {DetachFn(d)} :
          /\ \A s \in Slots : d.ocl.rel[s] <= 1
          /\ d.ctx.status = DEV_NULL /\ ~d.ctx.peach
          /\ d2.ctx = d.ctx /\ d2.ocl = d.ocl /\ d2.dev = d.dev /\ d2.out = d.out

\* C5 witness: a context whose attach failed part-way has been detached, its
\* created resources released once and the others never
C5_PartialDetached ==
    /\ call.op = "detach"
    /\ ~ctx.peach
    /\ \E s \in Slots : ocl.h[s] = "released" /\ ocl.rel[s] = 1
    /\ \E s \in Slots : ocl.h[s] = "null" /\ ocl.rel[s] = 0

\* the fault sites of the setup steps C6 lists: context, second queue, source
\* load and build, kernels, device and host buffers, PRNG seeding
SetupSites ==
    AttachSites \
        ({Idx("clEnqueueFillBuffer(d_bt)", i) : i \in 0..1}
            \cup {Idx("clEnqueueFillBuffer(d_solve)", i) : i \in 0..1}
            \cup {"clFinish0", "clFinish1",
                  "clCreateCommandQueue0_ooo", "clCreateCommandQueue0"})

\* a setup step fails under F: a listed call, or the primary queue, which is
\* missing when its out-of-order creation and its fallback both fail
SetupFailed(F) ==
    \/ F \cap SetupSites # {}
    \/ {"clCreateCommandQueue0_ooo", "clCreateCommandQueue0"} \subseteq F

\* C6: attach takes status NULL to INIT exactly when every setup step
\* succeeded, and then every handle is live; if a setup step fails, attach
\* sets status FAIL and returns the error code.
C6_AttachInitIffAllSteps ==
    (ctx.status = DEV_NULL /\ ctx.peach) =>
        \A F \in AttachFaults, g \in Garbage :
            \A r \in {AttachFn(M, F, g)} :
                /\ r.ctx.status = DEV_INIT <=> ~SetupFailed(F)
                /\ SetupFailed(F) =>
                       r.ctx.status = DEV_FAIL /\ r.ret = "VERROR"
                /\ r.ctx.status = DEV_INIT =>
                       /\ r.ret = "VEOK"
                       /\ \A s \in Slots : r.ocl.h[s] = "live"

\* C6 witness: an attach has failed on the missing primary queue, found only
\* at the PRNG seeding launch
C6_FailedOnMissingQueue ==
    /\ call.op = "attach" /\ call.ret = "VERROR"
    /\ ctx.status = DEV_FAIL
    /\ ocl.h["queue0"] = "null" /\ ocl.h["queue1"] = "live"
    /\ ocl.h["d_solve0"] = "live"

\* both queues have completed all their commands
BothQueuesIdle == \A i \in 0..1 : dev.q[i] = <<>>

\* the status values of the working cycle
Cycle == {DEV_INIT, DEV_IDLE, DEV_WORK}

\* C7 (as found in the code): through the assignments of any tick, starting from the state the
\* previous call left, work never decreases while the status stays the same,
\* and every status change among INIT, IDLE and WORK sets work to 0.
C7_WorkMonotoneResetOnChange ==
    \A bt \in Trailers : \A r \in {TickFn(M, bt, 0, {}, now)} :
        ctx.peach =>
            /\ r.ev.hist[1] = [status |-> ctx.status, work |-> ctx.work]
            /\ r.ev.hist[Len(r.ev.hist)] =
                   [status |-> r.ctx.status, work |-> r.ctx.work]
            /\ \A k \in 1..(Len(r.ev.hist) - 1) :
                  /\ r.ev.hist[k].status = r.ev.hist[k + 1].status =>
                         r.ev.hist[k + 1].work >= r.ev.hist[k].work
                  /\ ( /\ r.ev.hist[k].status # r.ev.hist[k + 1].status
                       /\ r.ev.hist[k].status \in Cycle
                       /\ r.ev.hist[k + 1].status \in Cycle ) =>
                         r.ev.hist[k + 1].work = 0

\* C7 as stated, seen from tick to tick: a tick that returns with the status it
\* started in has not decreased work.
C7_WorkMonotoneBetweenTicks ==
    \A bt \in Trailers : \A r \in {TickFn(M, bt, 0, {}, now)} :
        (ctx.peach /\ r.ctx.status = ctx.status) => r.ctx.work >= ctx.work

\* C7 witness: a device in WORK with solve attempts counted, on which a tick
\* with a new phash returns to INIT with work 0
C7_WorkThenReset ==
    /\ ctx.status = DEV_WORK /\ ctx.work > 0
    /\ \E bt \in Trailers :
          \E r \in {TickFn(M, bt, 0, {}, now)} :
              r.ctx.status = DEV_INIT /\ r.ctx.work = 0

C9_PhashChangeWithIdleQueue ==
    ctx.status = DEV_WORK =>
        /\ ocl.h_bt[1].phash = ocl.h_bt[0].phash
        /\ \A bt \in Trailers : \A r \in {TickFn(M, bt, 0, {}, now)} :
              bt.phash # ocl.h_bt[0].phash =>
                  /\ r.ret = "VERROR"
                  /\ r.ev.solves = <<>> /\ r.ev.builds = <<>>
                  /\ r.out = out_bt /\ r.ocl = ocl /\ r.dev = dev
                  /\ IF SomeQueueIdle
                     THEN r.ctx.status = DEV_INIT /\ r.ctx.work = 0
                     ELSE r.ctx = ctx

\* C9 witness: a device in WORK with an idle queue whose host solve slot holds
\* a solution, on which a tick with a new phash returns to INIT
C9_ChangeWithPendingSolve ==
    /\ ctx.status = DEV_WORK /\ ctx.work > 0
    /\ \E i \in 0..1 : dev.q[i] = <<>> /\ SolvePending(ocl.h_solve[i])
    /\ \E bt \in Trailers :
          /\ bt.phash # ocl.h_bt[0].phash
          /\ \E r \in {TickFn(M, bt, 0, {}, now)} :
                r.ctx.status = DEV_INIT /\ r.ret = "VERROR"

\* C9 as stated: in WORK, the next tick whose trailer's phash differs from the
\* phash of the host trailers sets status INIT and work 0.
C9_PhashChangeNextTick ==
    ctx.status = DEV_WORK =>
        \A bt \in Trailers : \A r \in {TickFn(M, bt, 0, {}, now)} :
            bt.phash # ocl.h_bt[0].phash =>
                r.ret = "VERROR" /\ r.ctx.status = DEV_INIT /\ r.ctx.work = 0

Pending(d, op) ==
    {<<i, k>> \in (0..1) \X (1..(2 * PEACHCACHELEN + 6)) :
        k <= Len(d.q[i]) /\ d.q[i][k].op = op}

\* C11 (as found in the code): in WORK, a tick that finds a queue idle, whose
\* trailer carries the phash of the host trailers and fails the
\* work-available test sets status IDLE and work 0, launches nothing,
\* leaves the device, the host slots and out_bt alone and returns NO_SOLVE;
\* with another phash the tick goes to INIT instead.
C11_WorkExpiryToIdle ==
    (ctx.status = DEV_WORK /\ SomeQueueIdle) =>
        \A bt \in Trailers : \A r \in {TickFn(M, bt, 0, {}, now)} :
            WorkExpired(bt, out_bt, now) =>
                /\ r.ret = "VERROR"
                /\ r.ev.solves = <<>> /\ r.ev.builds = <<>>
                /\ r.dev = dev /\ r.ocl = ocl /\ r.out = out_bt
                /\ r.ctx.work = 0
                /\ r.ctx.status =
                       IF bt.phash = ocl.h_bt[0].phash THEN DEV_IDLE
                       ELSE DEV_INIT

\* C11 witness: a device in WORK with solve attempts counted and a queue
\* idle, on which a tick with tcount = 0 goes to IDLE
C11_ExpiryFromWork ==
    /\ ctx.status = DEV_WORK /\ ctx.work > 0 /\ SomeQueueIdle
    /\ \E bt \in Trailers :
          /\ bt.tcount = 0 /\ bt.phash = ocl.h_bt[0].phash
          /\ \E r \in {TickFn(M, bt, 0, {}, now)} :
                r.ctx.status = DEV_IDLE /\ r.ctx.work = 0

\* C11 as stated: in WORK, a tick that finds a queue idle and whose trailer
\* fails the work-available test sets status IDLE with work 0.
C11_ExpiryAlwaysIdle ==
    (ctx.status = DEV_WORK /\ SomeQueueIdle) =>
        \A bt \in Trailers : \A r \in {TickFn(M, bt, 0, {}, now)} :
            WorkExpired(bt, out_bt, now) =>
                r.ctx.status = DEV_IDLE /\ r.ctx.work = 0

\* C13: a tick takes the status out of INIT only when it starts with
\* work >= PEACHCACHELEN and both queues idle, the whole map built; and no
\* solve kernel waits in a queue, or is launched, while a build kernel waits
\* in a queue.
C13_BuildBarrier ==
    /\ Pending(dev, "solve") # {} => Pending(dev, "build") = {}
    /\ ctx.status = DEV_INIT =>
          \A bt \in Trailers : \A r \in {TickFn(M, bt, 0, {}, now)} :
              /\ (\E k \in DOMAIN r.ev.hist : r.ev.hist[k].status # DEV_INIT) =>
                    /\ ctx.work >= PEACHCACHELEN
                    /\ BothQueuesIdle
                    /\ MapUnder(dev, dev.d_phash)
              /\ r.ev.solves # <<>> => Pending(r.dev, "build") = {}

\* C13 witness: a build with two launches done, on which a tick leaves INIT
\* and launches a solve
C13_SolveAfterBarrier ==
    /\ ctx.status = DEV_INIT /\ ctx.work >= PEACHCACHELEN /\ lticks >= 1
    /\ ocl.global_work_size < PEACHCACHELEN
    /\ \E bt \in Trailers :
          \E r \in {TickFn(M, bt, 0, {}, now)} :
              r.ctx.status = DEV_WORK /\ r.ev.solves # <<>>

\* C14: a tick calls clFinish only in build entry, which it runs only from
\* INIT with work = 0 and both queues already idle; no other tick takes a
\* command out of a queue.  Build entry leaves work > 0, and a tick brings a
\* device to INIT with work = 0 only from WORK with a trailer whose phash
\* differs from the host trailers': between two build entries the caller's
\* phash has changed.
C14_FinishOnlyAtBuildEntry ==
    ctx.peach =>
        \A bt \in Trailers : \A r \in {TickFn(M, bt, 0, {}, now)} :
            /\ r.ev.finished # {} <=> r.ev.entry
            /\ r.ev.entry =>
                  /\ ctx.status = DEV_INIT /\ ctx.work = 0 /\ BothQueuesIdle
                  /\ r.ev.finished = {0, 1}
                  /\ r.ctx.status = DEV_INIT /\ r.ctx.work > 0
                  /\ r.ocl.h_bt[0].phash = bt.phash
            /\ ~r.ev.entry =>
                  \A i \in 0..1 :
                      /\ Len(r.dev.q[i]) >= Len(dev.q[i])
                      /\ SubSeq(r.dev.q[i], 1, Len(dev.q[i])) = dev.q[i]
            /\ ( /\ r.ctx.status = DEV_INIT /\ r.ctx.work = 0
                 /\ ~(ctx.status = DEV_INIT /\ ctx.work = 0) ) =>
                  /\ bt.phash # ocl.h_bt[0].phash
                  /\ r.ev.hist[Len(r.ev.hist) - 1].status = DEV_WORK

\* C14 witness: a second build entry, on a device that has a map of another
\* phash
C14_SecondBuildEntry ==
    /\ ctx.status = DEV_INIT /\ ctx.work = 0 /\ BothQueuesIdle
    /\ ocl.h_bt[0].phash \in PHashes
    /\ MapUnder(dev, ocl.h_bt[0].phash)
    /\ \E bt \in Trailers :
          /\ bt.phash # ocl.h_bt[0].phash
          /\ \E r \in {TickFn(M, bt, 0, {}, now)} :
                r.ev.entry /\ r.ev.finished = {0, 1}

\* the lowest queue that is idle and holds a solve in its host slot
SolveQueue ==
    IF dev.q[0] = <<>> /\ ocl.h_solve[0].found THEN 0
    ELSE IF dev.q[1] = <<>> /\ ocl.h_solve[1].found THEN 1
    ELSE 2

\* C12: in WORK, a tick whose trailer has the phash of the host trailers and
\* passes the work-available test, with a solve in the host slot of an idle
\* queue, returns SOLVE; out_bt is that queue's host trailer with the solve
\* bytes as nonce, the host slot is zero afterwards and the device buffer is
\* being cleared.  No stamped solution is reported by two ticks.
C12_SolveReportedOnce ==
    /\ \A a, b \in DOMAIN sols.rep :
          (a # b /\ sols.rep[a] # 0) => sols.rep[a] # sols.rep[b]
    /\ (ctx.status = DEV_WORK /\ SolveQueue < 2) =>
          \A bt \in SolveTrailers \cup Trailers :
              \A r \in {TickFn(M, bt, 0, {}, now)} :
                  (bt.phash = ocl.h_bt[0].phash
                        /\ ~WorkExpired(bt, out_bt, now)) =>
                      /\ r.ret = "VEOK"
                      /\ r.out = [ocl.h_bt[SolveQueue] EXCEPT
                                    !.nonce = SolveNonce(ocl.h_solve[SolveQueue])]
                      /\ r.out.nonce.sn = ocl.h_solve[SolveQueue].sn
                      /\ r.ocl.h_solve[SolveQueue] = ZeroSolve
                      /\ r.dev.q[SolveQueue] = <<Cmd("fill_solve", 0, 0, ZeroBT)>>
                      /\ r.ocl.h_solve[1 - SolveQueue] = ocl.h_solve[1 - SolveQueue]
                      /\ r.ctx.status = DEV_WORK

\* C12 witness: two solutions with different serials reported one after
\* the other, the second by a tick in WORK after the first report
C12_SecondSolveReported ==
    /\ Len(sols.rep) = 2 /\ sols.rep[1] = 1 /\ sols.rep[2] = 2
    /\ call = Call("tick", "VEOK")
    /\ ctx.status = DEV_WORK
    /\ out_bt.nonce = [kind |-> "solve", ph |-> 1, sn |-> 2]

\* the edges of the driver's state diagram
StatusEdge(a, b) ==
    \/ a = b
    \/ b = DEV_FAIL
    \/ <<a, b>> \in {<<DEV_NULL, DEV_INIT>>, <<DEV_INIT, DEV_IDLE>>,
                     <<DEV_IDLE, DEV_WORK>>, <<DEV_WORK, DEV_INIT>>,
                     <<DEV_WORK, DEV_IDLE>>}

\* the statuses a call has assigned, in order, from the one it found
Statuses(r) == [k \in DOMAIN r.ev.hist |-> r.ev.hist[k].status]

GateTrailers == [phash : PHashes, bnum : {0} \cup BNums, tcount : {0, 1},
                 time0 : 0..MaxTime, difficulty : {2}, nonce : {ZeroNonce}]

BuildEnd(b) == b.offset + b.size

\* C31 (as found in the code): the build launches of a tick follow one
\* another: the first starts at work as the tick found it, or at 0 after
\* build entry, each next one where the one before ends, and work is left
\* at the end of the last; a launch starts below PEACHCACHELEN and its size
\* is the least multiple of local that is not below
\* min(PEACHCACHELEN - offset, global).  The launches of a cycle therefore
\* cover every index below PEACHCACHELEN once, and the last of them ends
\* less than local behind PEACHCACHELEN.
C31_BuildTiling ==
    ctx.peach =>
        \A bt \in FaultTrailers : \A r \in {TickFn(M, bt, 0, {}, now)} :
        \A b \in {r.ev.builds} :
            /\ (ctx.status = DEV_INIT /\ ctx.work > 0) =>
                  /\ ctx.work < PEACHCACHELEN + ocl.local_work_size
                  /\ ~r.ev.entry
            /\ b # <<>> =>
                  /\ ctx.status = DEV_INIT
                  /\ b[1].offset = IF r.ev.entry THEN 0 ELSE ctx.work
                  /\ r.ctx.status = DEV_INIT
                  /\ r.ctx.work = BuildEnd(b[Len(b)])
            /\ \A k \in DOMAIN b :
                  /\ k > 1 => b[k].offset = BuildEnd(b[k - 1])
                  /\ b[k].offset < PEACHCACHELEN
                  /\ b[k].size > 0
                  /\ b[k].size % ocl.local_work_size = 0
                  /\ b[k].size >= Min(PEACHCACHELEN - b[k].offset,
                                      ocl.global_work_size)
                  /\ b[k].size < Min(PEACHCACHELEN - b[k].offset,
                                     ocl.global_work_size)
                                     + ocl.local_work_size
                  /\ BuildEnd(b[k]) < PEACHCACHELEN + ocl.local_work_size

\* C31 witness: a device with work groups of three items at the start of
\* a build: the tick launches the first three entries on one queue and a
\* group from offset 3 that ends behind the map on the other
C31_LastGroupOverhangs ==
    /\ ctx.peach /\ ctx.status = DEV_INIT /\ ctx.work = 0
    /\ ocl.local_work_size = 3 /\ ocl.global_work_size = 3
    /\ \E bt \in FaultTrailers : \E r \in {TickFn(M, bt, 0, {}, now)} :
          /\ r.ev.entry
          /\ Len(r.ev.builds) = 2
          /\ r.ev.builds[1].offset = 0 /\ BuildEnd(r.ev.builds[1]) = 3
          /\ r.ev.builds[2].offset = 3 /\ BuildEnd(r.ev.builds[2]) = 6
          /\ r.ctx.work = 6

\* C31 as stated: no build launch covers an index at or above
\* PEACHCACHELEN.
C31_LaunchesInsideMap ==
    ctx.peach =>
        \A bt \in FaultTrailers : \A r \in {TickFn(M, bt, 0, {}, now)} :
            \A k \in DOMAIN r.ev.builds :
                BuildEnd(r.ev.builds[k]) <= PEACHCACHELEN

\* difficulty floors a caller passes, and trailer difficulties around them
DiffFloors == 0..3
DiffTrailers ==
    {[bt EXCEPT !.difficulty = d] : bt \in SolveTrailers, d \in 1..3}

\* C32: every solve launch of a tick hands the kernel the lesser of the
\* caller's floor and the trailer's difficulty when the floor is non-zero,
\* and the trailer's difficulty when it is zero; the value never exceeds
\* the trailer's difficulty.
C32_SolveDifficulty ==
    ctx.peach =>
        \A bt \in DiffTrailers : \A diff \in DiffFloors :
        \A r \in {TickFn(M, bt, diff, {}, now)} :
        \A k \in DOMAIN r.ev.solves :
            /\ diff # 0 => r.ev.solves[k].diff = Min(diff, bt.difficulty)
            /\ diff = 0 => r.ev.solves[k].diff = bt.difficulty
            /\ r.ev.solves[k].diff <= bt.difficulty

\* C32 witness: a working device launches solves on both queues, with the
\* floor when it is below the trailer's difficulty and with the trailer's
\* difficulty when the floor is above it or zero
C32_FloorBelowAndAbove ==
    /\ ctx.peach /\ ctx.status = DEV_WORK
    /\ \E bt \in DiffTrailers :
          /\ bt.difficulty = 2
          /\ \E r \in {TickFn(M, bt, 1, {}, now)} :
                /\ Len(r.ev.solves) = 2
                /\ r.ev.solves[1].diff = 1
          /\ \E r \in {TickFn(M, bt, 3, {}, now)} :
                /\ Len(r.ev.solves) = 2
                /\ r.ev.solves[1].diff = 2
          /\ \E r \in {TickFn(M, bt, 0, {}, now)} :
                /\ Len(r.ev.solves) = 2
                /\ r.ev.solves[2].diff = 2

\* no solve slot, host or device, holds a solution
NoSolveHeld(o, d) ==
    \A i \in 0..1 : ~o.h_solve[i].found /\ ~d.d_solve[i].found

\* queue[i] holds no command of a solve launch
NoSolveQueued(d, i) ==
    \A k \in DOMAIN d.q[i] : d.q[i][k].op \notin {"write_bt", "solve", "read_solve"}

\* C33: a solve launched under a phash the caller has left is never
\* reported.  Build entry runs only with both queues idle, takes the phash
\* of its tick into both host trailers and leaves every solve slot zero
\* and nothing in flight but build launches; while the map is built no
\* solve slot is set and no solve launch is in flight; in IDLE and WORK
\* both host trailers hold the phash of the last build entry, every solve
\* launch in flight was made with that phash, and a solution waiting in
\* the slot of the in-order queue was computed under it; a tick reports a
\* solution only from a device it found in IDLE or WORK, and out_bt then
\* carries the phash of the trailer passed to that tick.
C33_NoStaleSolve ==
    ctx.peach =>
        /\ (ctx.status = DEV_INIT /\ ctx.work > 0) =>
              /\ NoSolveHeld(ocl, dev)
              /\ NoSolveQueued(dev, 0) /\ NoSolveQueued(dev, 1)
        /\ ctx.status \in {DEV_IDLE, DEV_WORK} =>
              /\ ocl.h_bt[0].phash = ocl.h_bt[1].phash
              /\ \A i \in 0..1 : \A k \in DOMAIN dev.q[i] :
                    dev.q[i][k].op = "write_bt" =>
                        dev.q[i][k].bt.phash = ocl.h_bt[i].phash
              /\ ocl.h_solve[1].found =>
                    ocl.h_solve[1].ph = ocl.h_bt[1].phash
        /\ \A bt \in Trailers : \A r \in {TickFn(M, bt, 0, {}, now)} :
              /\ r.ev.entry =>
                    /\ dev.q[0] = <<>> /\ dev.q[1] = <<>>
                    /\ NoSolveHeld(r.ocl, r.dev)
                    /\ NoSolveQueued(r.dev, 0) /\ NoSolveQueued(r.dev, 1)
                    /\ \A i \in 0..1 : r.ocl.h_bt[i].phash = bt.phash
              /\ r.ret = "VEOK" =>
                    /\ ctx.status \in {DEV_IDLE, DEV_WORK}
                    /\ ~r.ev.entry
                    /\ r.out.phash = bt.phash
                    /\ r.out.nonce.kind = "solve"
                    /\ \E i \in 0..1 :
                          /\ ocl.h_solve[i].found
                          /\ ocl.h_bt[i].phash = bt.phash
                          /\ r.out.nonce = SolveNonce(ocl.h_solve[i])

\* C33 witness: the caller left the phash of a solution that waits in a
\* host solve slot; the device is back in INIT and the next tick with the
\* new phash runs build entry, which discards the solution
C33_StaleSolveDiscarded ==
    /\ ctx.peach /\ ctx.status = DEV_INIT /\ ctx.work = 0
    /\ call = Call("tick", "VERROR")
    /\ \E i \in 0..1 :
          /\ ocl.h_solve[i].found
          /\ ocl.h_solve[i].ph = ocl.h_bt[i].phash
          /\ \E bt \in Trailers : \E r \in {TickFn(M, bt, 0, {}, now)} :
                /\ bt.phash # ocl.h_bt[i].phash
                /\ r.ev.entry
                /\ ~r.ocl.h_solve[i].found
                /\ r.ret = "VERROR"

\* the trailers queue[i] is to write to the device
QueuedTrailers(d, i) ==
    {d.q[i][k].bt : k \in {j \in DOMAIN d.q[i] : d.q[i][j].op = "write_bt"}}

\* C36: in IDLE and in WORK the map is built entirely under the phash in
\* the device phash buffer, no build launch is in flight, and both host
\* trailers hold that phash.  A tick launches a solve on a queue only with
\* a trailer of that phash: the trailer it puts in the queue's host
\* trailer and writes to the device for the launch carries the phash of
\* the complete map.
C36_SolveOnMapOfTrailer ==
    ctx.peach =>
        /\ ctx.status \in {DEV_IDLE, DEV_WORK} =>
              /\ MapUnder(dev, dev.d_phash)
              /\ Pending(dev, "build") = {}
              /\ \A i \in 0..1 : ocl.h_bt[i].phash = dev.d_phash
        /\ \A bt \in Trailers : \A r \in {TickFn(M, bt, 0, {}, now)} :
              \A k \in DOMAIN r.ev.solves : \A id \in {r.ev.solves[k].id} :
                  /\ r.ev.solves[k].phash = bt.phash
                  /\ MapUnder(r.dev, bt.phash)
                  /\ r.dev.d_phash = bt.phash
                  /\ Pending(r.dev, "build") = {}
                  /\ r.ocl.h_bt[id].phash = bt.phash
                  /\ QueuedTrailers(r.dev, id) = {r.ocl.h_bt[id]}
                  /\ ctx.status \in {DEV_IDLE, DEV_WORK} =>
                        /\ ocl.h_bt[id].phash = bt.phash
                        /\ MapUnder(dev, bt.phash)

\* C36 witness: a working device whose map is built under one phash: a
\* tick with a trailer of that phash launches solves on both queues, a
\* tick with a trailer of the other phash launches none and goes back to
\* INIT
C36_LaunchOnlyUnderMapPhash ==
    /\ ctx.peach /\ ctx.status = DEV_WORK
    /\ dev.q[0] = <<>> /\ dev.q[1] = <<>>
    /\ \E bt \in Trailers : \E r \in {TickFn(M, bt, 0, {}, now)} :
          /\ bt.phash = dev.d_phash
          /\ Len(r.ev.solves) = 2
          /\ MapUnder(r.dev, bt.phash)
    /\ \E bt \in Trailers : \E r \in {TickFn(M, bt, 0, {}, now)} :
          /\ bt.phash # dev.d_phash
          /\ bt.tcount # 0
          /\ r.ev.solves = <<>>
          /\ r.ctx.status = DEV_INIT

-----------------------------------------------------------------------------
(* Properties of the Stratum client *)

\* a line that is a response: no method, an id
IsResponse(msg) ==
    /\ ~\E i \in DOMAIN msg : msg[i].k = "method" /\ msg[i].t = "str"
    /\ \E i \in DOMAIN msg : msg[i].k = "id"

\* a line whose result is true
ResultTrue(msg) == \E i \in DOMAIN msg : msg[i] = JsonResult("true")

\* what one recv can deliver: a line, or a response and a further line
LineData ==
    {l \o <<NL>> : l \in PoolLines}
    \cup {l \o <<NL>> \o <<MsgId(1), JsonResult("true"), NL>> :
              l \in ResponseLines}

\* the first line of the buffer once data is appended
FirstLine(data) ==
    Take(strat.recv_buf \o data, FirstNL(strat.recv_buf \o data) - 1)

\* C15: while the client is AUTHORIZING, handling a response line whose
\* result is true sets the state to CONNECTED and changes nothing else; a
\* process() that receives it returns 0 in CONNECTED unless a hangup is
\* reported with it.  When the result of the response is false or missing,
\* process() handles no further line, closes the socket, sets the state to
\* DISCONNECTED, empties the receive buffer and returns -1.
C15_AuthorizeResponse ==
    (strat.state = STRATUM_AUTHORIZING /\ strat.sd >= 0) =>
        \A data \in LineData : \A h \in {FirstLine(data)} :
            IsResponse(h) =>
                \A hup \in {{}, {"POLLHUP"}} :
                \A r \in {ProcessFn(strat, {"POLLIN"} \cup hup, "data", data, {})} :
                    IF ResultTrue(h)
                    THEN /\ HandleMessage(Outcome(strat, <<>>, 0), h, {}).ctx
                               = [strat EXCEPT !.state = STRATUM_CONNECTED]
                         /\ r.handled[1] = h
                         /\ hup = {} =>
                               /\ r.ret = 0
                               /\ r.ctx.state = STRATUM_CONNECTED
                               /\ r.ctx.sd = strat.sd
                    ELSE /\ r.ret = -1
                         /\ r.handled = <<h>>
                         /\ r.ctx = Disconnect(strat)
                         /\ r.ctx.state = STRATUM_DISCONNECTED
                         /\ r.ctx.sd = -1
                         /\ r.ctx.recv_buf = <<>>
                         /\ r.sent = <<>>

\* C15 witness: an AUTHORIZING client whose socket holds a response with
\* result false behind the first part of the line already received;
\* process() ends the connection
C15_AuthorizeRefused ==
    /\ strat.state = STRATUM_AUTHORIZING
    /\ strat.recv_buf = <<MsgId(1)>>
    /\ pipe.data = <<JsonResult("false"), NL>>
    /\ \E r \in {ProcessFn(strat, {"POLLIN"}, "data", pipe.data, {})} :
          r.ret = -1 /\ r.ctx.state = STRATUM_DISCONNECTED /\ r.ctx.sd = -1

\* C16: submit in a state other than CONNECTED, or without an open socket,
\* returns -1, sends nothing and leaves the whole context, the message-id
\* counter included, as it was.
C16_SubmitRefused ==
    (strat.state # STRATUM_CONNECTED \/ strat.sd < 0) =>
        \A job_id \in JobIds, nonce \in Hashes, hash \in Hashes,
           F \in {{}, {"send"}} :
            \A r \in {SubmitFn(strat, job_id, nonce, hash, F)} :
                r.ret = -1 /\ r.sent = <<>> /\ r.ctx = strat

\* C16 witness: a client that has sent its authorize request and waits for
\* the answer; submit is refused
C16_SubmitWhileAuthorizing ==
    /\ strat.state = STRATUM_AUTHORIZING /\ strat.sd >= 0
    /\ strat.msg_id = 2 /\ Len(wire) = 1
    /\ \E r \in {SubmitFn(strat, <<"j", "1">>, Fill(171, HashBytes),
                          Fill(171, HashBytes), {})} :
          r.ret = -1 /\ r.ctx.msg_id = 2

\* text is made of lower-case hex digits only
IsHexText(s) == \A i \in DOMAIN s : IsHex(s[i])

\* C17: in CONNECTED a submit whose send succeeds sends exactly one line,
\* newline-terminated, with id the message-id counter before the call,
\* method mining.submit and params wallet.worker, the job id and the hex
\* texts of nonce and hash, two lower-case hex digits for each byte, which
\* decode to the bytes given; the counter grows by one, also when the send
\* fails; no two requests the client has sent carry the same id.
C17_SubmitLine ==
    /\ \A i, j \in DOMAIN wire : i # j => wire[i].id # wire[j].id
    /\ \A i \in DOMAIN wire : wire[i].id < strat.msg_id
    /\ (strat.state = STRATUM_CONNECTED /\ strat.sd >= 0) =>
          \A job_id \in JobIds, nonce \in Hashes, hash \in Hashes :
              /\ \A r \in {SubmitFn(strat, job_id, nonce, hash, {})} :
                    /\ r.ret = 0
                    /\ Len(r.sent) = 1
                    /\ r.sent[1].nl
                    /\ r.sent[1].id = strat.msg_id
                    /\ r.sent[1].method = "mining.submit"
                    /\ Len(r.sent[1].params) = 4
                    /\ r.sent[1].params[1] = <<"w", ".", "k">>
                    /\ r.sent[1].params[2] = job_id
                    /\ Len(r.sent[1].params[3]) = 2 * HashBytes
                    /\ Len(r.sent[1].params[4]) = 2 * HashBytes
                    /\ IsHexText(r.sent[1].params[3])
                    /\ IsHexText(r.sent[1].params[4])
                    /\ HexToBytes(r.sent[1].params[3], Zeros(HashBytes)) = nonce
                    /\ HexToBytes(r.sent[1].params[4], Zeros(HashBytes)) = hash
                    /\ r.ctx = [strat EXCEPT !.msg_id = @ + 1]
              /\ \A r \in {SubmitFn(strat, job_id, nonce, hash, {"send"})} :
                    r.sent = <<>> /\ r.ctx = [strat EXCEPT !.msg_id = @ + 1]

\* C17 witness: an authorize request and a submit request sent, with
\* different ids, by a client that is CONNECTED
C17_AuthorizeThenSubmit ==
    /\ strat.state = STRATUM_CONNECTED
    /\ wire = <<[id |-> 1, method |-> "mining.authorize"],
                [id |-> 2, method |-> "mining.submit"]>>
    /\ strat.msg_id = 3

\* the contexts a client call can leave, from the context the client has
AfterCalls ==
    {ConnectFn(strat, F).ctx : F \in ConnectFaults}
    \cup {Disconnect(strat), GetJobFn(strat, job_bt).ctx}
    \cup {SubmitFn(strat, j, h, h, F).ctx :
              j \in JobIds, h \in Hashes, F \in {{}, {"send"}}}
    \cup {ProcessFn(strat, rev, rcv, data, {}).ctx :
              rev \in Revents, rcv \in {"data", "eof", "eagain", "error"},
              data \in LineData}

\* C18: has_job() is true exactly when the pending job is valid and its
\* job_seq differs from the current job's; get_job succeeds exactly when the
\* pending job is valid, and has_job() is false after it; while has_job()
\* is false no client call makes it true unless the call has stored a
\* notify, which shows in a larger pending job_seq.
C18_HasJobAfterGet ==
    /\ strat.pending_job.valid \in {0, 1}
    /\ HasJob(strat) <=>
          /\ strat.pending_job.valid = 1
          /\ strat.pending_job.job_seq # strat.current_job.job_seq
    /\ \A r \in {GetJobFn(strat, job_bt)} :
          /\ r.ret = 0 <=> strat.pending_job.valid = 1
          /\ r.ret = 0 => ~HasJob(r.ctx)
    /\ ~HasJob(strat) =>
          \A c \in AfterCalls :
              HasJob(c) => /\ c.pending_job.job_seq > strat.pending_job.job_seq
                           /\ c.current_job = strat.current_job

\* C18 witness: a client that has taken its second job and was
\* disconnected afterwards; has_job() is false
C18_NoJobAfterGet ==
    /\ strat.pending_job.job_seq = 2
    /\ strat.current_job = strat.pending_job
    /\ job_bt = JobTrailer(strat.current_job)
    /\ strat.state = STRATUM_DISCONNECTED
    /\ ~HasJob(strat)

\* the line of a notify
NotifyLine(f) == <<NullId, Method("mining.notify"), Params(f)>>

\* C19 as stated: the trailer get_job produces after a notify has been
\* processed holds what the notify supplies, whatever the pending job held
\* before: it is the trailer the same notify gives a client that has
\* received no job yet.
C19_TrailerFromLastNotify ==
    \A f \in NotifyParams :
        \A p \in {ParseJob(strat, NotifyLine(f))} :
            p.ret = 0 =>
                GetJobFn(p.ctx, job_bt).bt
                    = GetJobFn(ParseJob(StratumInit, NotifyLine(f)).ctx,
                               ZeroTrailer).bt

\* C20 as stated: the notify with difficulty "8" and time0 "66ddee00" leaves
\* a valid pending job with job_seq one larger, difficulty[0] = 8 and time0
\* bytes 00 ee dd 66.
C20_Time0WithoutPrefixIsHex ==
    \A p \in {ParseJob(strat, NotifyLine(ExampleParams))} :
        /\ p.ret = 0
        /\ p.ctx.pending_job.valid = 1
        /\ p.ctx.pending_job.job_seq = strat.pending_job.job_seq + 1
        /\ p.ctx.pending_job.difficulty[1] = 8
        /\ p.ctx.pending_job.time0 = <<0, 238, 221, 102>>

\* C21: handling a notify that stratum_parse_job accepts makes pending
\* job_seq exactly one larger, also when the pending job already holds the
\* same job; a notify it refuses leaves job_seq alone; no client call makes
\* pending job_seq smaller, and current job_seq does not exceed pending
\* job_seq, before or after any call.
C21_JobSeqMonotone ==
    /\ strat.current_job.job_seq <= strat.pending_job.job_seq
    /\ \A c \in AfterCalls :
          /\ c.pending_job.job_seq >= strat.pending_job.job_seq
          /\ c.current_job.job_seq <= c.pending_job.job_seq
    /\ \A f \in NotifyParams :
          \A h \in {HandleMessage(Outcome(strat, <<>>, 0), NotifyLine(f), {})} :
              h.ctx.pending_job.job_seq =
                  IF ParseJob(strat, NotifyLine(f)).ret = 0
                  THEN strat.pending_job.job_seq + 1
                  ELSE strat.pending_job.job_seq

\* C21 witness: the job the client took with job_seq 1 has been notified
\* again, unchanged, and the pending job carries job_seq 2
C21_SameJobTwice ==
    /\ strat.current_job.job_seq = 1
    /\ strat.pending_job.job_seq = 2
    /\ strat.current_job.job_id = <<"j", "1">>
    /\ strat.pending_job = [strat.current_job EXCEPT !.job_seq = 2]

\* the submit requests the client has sent
SubmitsSent == {i \in DOMAIN wire : wire[i].method = "mining.submit"}

\* C22 as stated: the shares counted, accepted and rejected together, never
\* exceed the submit requests the client has sent.
C22_SharesWithinSubmits ==
    strat.accepted_shares + strat.rejected_shares <= Cardinality(SubmitsSent)

\* what recv can return now: at most the bytes it was given room for
RecvSizes == 1..Min(Len(pipe.data), RecvRoom(strat))

\* the text from the last newline of the buffer on
RECURSIVE Residue(_)
Residue(buf) ==
    IF FirstNL(buf) = 0 THEN buf ELSE Residue(Drop(buf, FirstNL(buf)))

\* C23: between calls the receive buffer holds fewer than
\* STRATUM_BUF_SIZE - BufSlack bytes (4096 - 100 in the program) and no
\* newline; recv is given room for at least one byte and what it returns,
\* with the terminator behind it, ends inside the buffer; when the bytes
\* that follow the last newline reach STRATUM_BUF_SIZE - BufSlack the call
\* leaves the buffer empty; a refused call and a call that polls nothing
\* leave the buffer as it was.
C23_RecvLenBelowSlack ==
    /\ Len(strat.recv_buf) < STRATUM_BUF_SIZE - BufSlack
    /\ FirstNL(strat.recv_buf) = 0
    /\ RecvRoom(strat) >= 1
    /\ \A hup \in {{}, {"POLLHUP"}} : \A n \in RecvSizes :
          \A r \in {ProcessFn(strat, {"POLLIN"} \cup hup, "data",
                               Take(pipe.data, n), {})} :
              /\ Len(strat.recv_buf) + n + 1 <= STRATUM_BUF_SIZE
              /\ Len(r.ctx.recv_buf) < STRATUM_BUF_SIZE - BufSlack
              /\ Len(Residue(strat.recv_buf \o Take(pipe.data, n)))
                     >= STRATUM_BUF_SIZE - BufSlack
                 => r.ctx.recv_buf = <<>>
    /\ \A rev \in Revents, rcv \in {"eof", "eagain", "error"} :
          \A r \in {ProcessFn(strat, rev, rcv, <<>>, {})} :
              r.ctx.recv_buf \in {<<>>, strat.recv_buf}

\* C23 witness: the buffer holds four bytes of a line and the socket three
\* more without a newline; process() receives them, returns 0 and leaves
\* the buffer empty
C23_LongLineDiscarded ==
    /\ strat.sd >= 0 /\ strat.state = STRATUM_CONNECTED
    /\ Len(strat.recv_buf) = STRATUM_BUF_SIZE - BufSlack - 1
    /\ Len(pipe.data) >= RecvRoom(strat)
    /\ FirstNL(pipe.data) = 0
    /\ \E r \in {ProcessFn(strat, {"POLLIN"}, "data",
                           Take(pipe.data, RecvRoom(strat)), {})} :
          r.ret = 0 /\ r.ctx.recv_buf = <<>> /\ r.ctx.sd >= 0

\* the newline-terminated lines of a text, in order
RECURSIVE LinesOf(_)
LinesOf(buf) ==
    IF FirstNL(buf) = 0 THEN <<>>
    ELSE <<Take(buf, FirstNL(buf) - 1)>> \o LinesOf(Drop(buf, FirstNL(buf)))

\* the lines handled one after the other, each once, until one is refused
RECURSIVE RunLines(_, _)
RunLines(o, lines) ==
    IF lines = <<>> \/ o.ret < 0 THEN o
    ELSE RunLines([HandleMessage(o, Head(lines), {})
                      EXCEPT !.handled = Append(@, Head(lines))],
                  Tail(lines))

\* the context but for the connection and the receive buffer
Session(c) == [c EXCEPT !.sd = -1, !.state = STRATUM_DISCONNECTED,
                        !.recv_buf = <<>>]

\* C24 (as found in the code): a process() that receives data handles the
\* complete lines of the buffer with the data appended, each once and in
\* order, up to the first line whose handling fails, and no line stays in
\* the buffer; when all were handled and no hangup is reported it returns
\* 0 and keeps the bytes behind the last newline for the next call, unless
\* they are STRATUM_BUF_SIZE - BufSlack or more, and then it keeps
\* nothing; with a hangup reported it handles the same lines and
\* disconnects afterwards.
C24_LinesInOrder ==
    /\ FirstNL(strat.recv_buf) = 0
    /\ (strat.sd >= 0 /\ strat.state # STRATUM_DISCONNECTED) =>
          \A n \in RecvSizes :
          \A buf \in {strat.recv_buf \o Take(pipe.data, n)} :
          \A x \in {RunLines(Outcome(strat, <<>>, 0), LinesOf(buf))} :
          \A r \in {ProcessFn(strat, {"POLLIN"}, "data",
                               Take(pipe.data, n), {})} :
              /\ r.handled = x.handled
              /\ r.handled = Take(LinesOf(buf), Len(r.handled))
              /\ r.sent = x.sent
              /\ Session(r.ctx) = Session(x.ctx)
              /\ FirstNL(r.ctx.recv_buf) = 0
              /\ IF x.ret < 0
                 THEN r.ret = -1 /\ r.ctx = Disconnect(x.ctx)
                 ELSE /\ r.ret = 0
                      /\ r.handled = LinesOf(buf)
                      /\ r.ctx.sd = strat.sd
                      /\ r.ctx.state = x.ctx.state
                      /\ r.ctx.recv_buf =
                             IF Len(Residue(buf)) < STRATUM_BUF_SIZE - BufSlack
                             THEN Residue(buf) ELSE <<>>
              /\ \A h \in {ProcessFn(strat, {"POLLIN", "POLLHUP"}, "data",
                                      Take(pipe.data, n), {})} :
                    /\ h.handled = r.handled
                    /\ h.ctx = Disconnect(r.ctx)
                    /\ h.ret = -1

\* C24 witness: the buffer holds the first member of a line and the socket
\* the rest of it, a second line and the start of a third, with the pool
\* gone; process() handles the two lines in order and then disconnects
C24_TwoLinesThenHangup ==
    /\ strat.sd >= 0 /\ strat.state = STRATUM_AUTHORIZING
    /\ strat.recv_buf = <<MsgId(1)>>
    /\ pipe.data = <<JsonResult("true"), NL, NL, MsgId(1)>>
    /\ ~pipe.open
    /\ \E r \in {ProcessFn(strat, {"POLLIN", "POLLHUP"}, "data",
                           pipe.data, {})} :
          /\ r.handled = <<<<MsgId(1), JsonResult("true")>>, <<>>>>
          /\ r.ret = -1
          /\ r.ctx.sd = -1

\* C24 as stated: a process() that handles every line it holds and leaves
\* the session up keeps the bytes behind the last newline for the next
\* call.
C24_TrailingLineKept ==
    \A n \in RecvSizes :
        \A r \in {ProcessFn(strat, {"POLLIN"}, "data", Take(pipe.data, n), {})} :
            r.ret = 0 =>
                r.ctx.recv_buf = Residue(strat.recv_buf \o Take(pipe.data, n))

\* the client is DISCONNECTED without a socket
Closed(c) == c.state = STRATUM_DISCONNECTED /\ c.sd = -1

\* C25 as stated: a connect in which name resolution, socket creation,
\* connect or the send of the authorize request fails, a process() whose
\* recv reports an error or the end of the stream, and a submit whose send
\* fails, each return -1 with the client DISCONNECTED and without a socket.
C25_FailureDisconnects ==
    /\ \A F \in ConnectFaults \ {{}} :
          \A r \in {ConnectFn(strat, F)} : r.ret = -1 /\ Closed(r.ctx)
    /\ (strat.sd >= 0 /\ strat.state # STRATUM_DISCONNECTED) =>
          \A rcv \in {"eof", "error"} :
              \A r \in {ProcessFn(strat, {"POLLIN"}, rcv, <<>>, {})} :
                  r.ret = -1 /\ Closed(r.ctx)
    /\ SubmitAllowed(strat) =>
          \A job_id \in JobIds, nonce \in Hashes, hash \in Hashes :
              \A r \in {SubmitFn(strat, job_id, nonce, hash, {"send"})} :
                  r.ret = -1 /\ Closed(r.ctx)

\* params with fewer than six fields, or with a character that is no hex
\* digit in the phash, bnum or mroot text
Malformed(f) ==
    \/ Len(f) < 6
    \/ \E i \in {2, 3, 6} : f[i].q /\ ~IsHexText(f[i].s)

\* C26 as stated: a process() that receives a malformed notify leaves the
\* whole context as it was: the pending job with its valid flag and
\* job_seq, and the connection state.
C26_MalformedDropped ==
    (strat.sd >= 0 /\ strat.state # STRATUM_DISCONNECTED) =>
        \A f \in NotifyParams :
            Malformed(f) =>
                \A r \in {ProcessFn(strat, {"POLLIN"}, "data",
                                     NotifyLine(f) \o <<NL>>, {})} :
                    r.ret = 0 /\ r.ctx = strat

\* C27: is_connected() is true exactly when the client has a socket and its
\* state is SUBSCRIBING, AUTHORIZING or CONNECTED; between calls the client
\* has a socket exactly when its state is not DISCONNECTED, and the state
\* is DISCONNECTED, AUTHORIZING or CONNECTED, so that is_connected() is
\* true exactly in AUTHORIZING and CONNECTED; the same holds after every
\* call.
C27_IsConnected ==
    /\ \A c \in {strat} \cup AfterCalls :
          /\ IsConnected(c) <=>
                /\ c.sd >= 0
                /\ c.state \in {STRATUM_SUBSCRIBING, STRATUM_AUTHORIZING,
                                STRATUM_CONNECTED}
          /\ c.sd >= 0 <=> c.state # STRATUM_DISCONNECTED
          /\ c.state \in {STRATUM_DISCONNECTED, STRATUM_AUTHORIZING,
                          STRATUM_CONNECTED}
          /\ IsConnected(c) <=>
                c.state \in {STRATUM_AUTHORIZING, STRATUM_CONNECTED}

\* C27 witness: a CONNECTED client whose second connect failed at the send
\* of the authorize request would be left without a socket;
\* is_connected() is true before and false after
C27_ConnectedThenNot ==
    /\ strat.state = STRATUM_CONNECTED
    /\ IsConnected(strat)
    /\ ~IsConnected(ConnectFn(strat, {"send"}).ctx)
    /\ ~IsConnected(ConnectFn(strat, {"socket"}).ctx)
    /\ IsConnected(ConnectFn(strat, {}).ctx)

\* params of six fields or more with bnum, difficulty or time0 unquoted
HasBareNumber(f) == Len(f) >= 6 /\ \E i \in {3, 4, 5} : ~f[i].q

\* C28 as stated: a notify with an unquoted bnum, difficulty or time0 is
\* accepted, and the bnum, difficulty and time0 of the pending job come from
\* the notify, whatever an earlier notify left there: they are the ones the
\* same notify gives a client that has received no job yet.
C28_BareNumbersStored ==
    (strat.sd >= 0 /\ strat.state # STRATUM_DISCONNECTED) =>
        \A f \in NotifyParams :
            HasBareNumber(f) =>
                \A r \in {ProcessFn(strat, {"POLLIN"}, "data",
                                     NotifyLine(f) \o <<NL>>, {})} :
                \A p \in {ParseJob(StratumInit, NotifyLine(f)).ctx} :
                    /\ r.ret = 0
                    /\ r.ctx.pending_job.valid = 1
                    /\ r.ctx.pending_job.job_seq
                          = strat.pending_job.job_seq + 1
                    /\ r.ctx.pending_job.bnum = p.pending_job.bnum
                    /\ r.ctx.pending_job.difficulty = p.pending_job.difficulty
                    /\ r.ctx.pending_job.time0 = p.pending_job.time0


\* the states a client is left in between calls
RestStates ==
    {STRATUM_DISCONNECTED, STRATUM_AUTHORIZING, STRATUM_CONNECTED}

\* C34: between calls the state is DISCONNECTED, AUTHORIZING or CONNECTED.
\* connect() leaves AUTHORIZING when it returns 0 and DISCONNECTED when it
\* fails; disconnect() leaves DISCONNECTED; submit() and get_job() leave
\* the state alone; process() leaves the state as it was, or DISCONNECTED
\* with return value -1, or CONNECTED when the client was AUTHORIZING and
\* a response with a true result was among the lines handled.  CONNECTED
\* is therefore entered from AUTHORIZING alone.
C34_StateEdges ==
    /\ strat.state \in RestStates
    /\ \A F \in ConnectFaults : \A r \in {ConnectFn(strat, F)} :
          /\ r.ret = 0 => r.ctx.state = STRATUM_AUTHORIZING
          /\ r.ret # 0 => r.ctx.state = STRATUM_DISCONNECTED
          /\ r.ret = 0 <=> F = {}
    /\ Disconnect(strat).state = STRATUM_DISCONNECTED
    /\ GetJobFn(strat, job_bt).ctx.state = strat.state
    /\ \A j \in JobIds, h \in Hashes, F \in {{}, {"send"}} :
          SubmitFn(strat, j, h, h, F).ctx.state = strat.state
    /\ \A rev \in Revents, rcv \in {"data", "eof", "eagain", "error"},
          data \in LineData \cup {pipe.data} :
          \A r \in {ProcessFn(strat, rev, rcv, data, {})} :
              /\ r.ctx.state \in RestStates
              /\ r.ctx.state # strat.state =>
                    \/ r.ctx.state = STRATUM_DISCONNECTED /\ r.ret = -1
                    \/ /\ r.ctx.state = STRATUM_CONNECTED
                       /\ strat.state = STRATUM_AUTHORIZING
                       /\ \E k \in DOMAIN r.handled :
                             IsResponse(r.handled[k]) /\ ResultTrue(r.handled[k])

\* C34 witness: a client that became CONNECTED through its authorize
\* request; a new connect() would take it back to AUTHORIZING, a failed one
\* or a hangup to DISCONNECTED
C34_ConnectedAfterAuthorize ==
    /\ strat.state = STRATUM_CONNECTED
    /\ wire # <<>> /\ wire[Len(wire)].method = "mining.authorize"
    /\ ConnectFn(strat, {}).ctx.state = STRATUM_AUTHORIZING
    /\ ConnectFn(strat, {"connect"}).ctx.state = STRATUM_DISCONNECTED
    /\ ProcessFn(strat, {"POLLHUP"}, "data", <<>>, {}).ctx.state
           = STRATUM_DISCONNECTED


\* the client as it is, and with the first member of a line received
WithPartialLine ==
    {strat} \cup (IF strat.sd >= 0
                  THEN {[strat EXCEPT !.recv_buf = <<MsgId(1)>>]} ELSE {})

\* C35: disconnect() leaves the client without a socket, with an empty
\* receive buffer and in DISCONNECTED, and every other field as it was:
\* the pending and the current job with their job_seq, the share
\* counters, the difficulty and the message-id counter; a second
\* disconnect() changes nothing; has_job() and get_job() answer after it
\* as they would have before.
C35_DisconnectFrame ==
    \A c \in WithPartialLine : \A d \in {Disconnect(c)} :
        /\ d.sd = -1 /\ d.recv_buf = <<>> /\ d.state = STRATUM_DISCONNECTED
        /\ \A f \in DOMAIN c \ {"sd", "recv_buf", "state"} : d[f] = c[f]
        /\ Disconnect(d) = d
        /\ HasJob(d) <=> HasJob(c)
        /\ \A g \in {GetJobFn(c, job_bt)}, h \in {GetJobFn(d, job_bt)} :
              /\ h.ret = g.ret /\ h.bt = g.bt
              /\ h.ctx = Disconnect(g.ctx)
              /\ ~HasJob(h.ctx)

\* C35 witness: a client that received a job while connected and was then
\* disconnected: it has no socket, has_job() is true and get_job succeeds
\* with the trailer of that job
C35_JobAfterDisconnect ==
    /\ strat.sd = -1 /\ strat.state = STRATUM_DISCONNECTED
    /\ strat.recv_buf = <<>>
    /\ strat.msg_id > 1
    /\ HasJob(strat)
    /\ Disconnect(strat) = strat
    /\ \E g \in {GetJobFn(strat, job_bt)} :
          /\ g.ret = 0
          /\ g.bt = JobTrailer(strat.pending_job)
          /\ g.bt # ZeroTrailer


\* C37: the trailer get_job writes carries the phash, bnum, mroot, first
\* difficulty byte and time0 of the pending job and zero everywhere else,
\* the transaction count included.  A device ticked with that trailer
\* never has status WORK, not even within the tick, and launches no
\* solve: from IDLE it stays in IDLE.
C37_JobTrailerNeverWorked ==
    /\ job_bt.tcount = 0
    /\ \A g \in {GetJobFn(strat, job_bt)} :
          g.ret = 0 =>
              /\ g.bt.tcount = 0
              /\ g.bt.nonce = Zeros(HashBytes)
              /\ \A k \in 2..4 : g.bt.difficulty[k] = 0
              /\ g.bt.phash = strat.pending_job.phash
              /\ g.bt.bnum = strat.pending_job.bnum
              /\ g.bt.mroot = strat.pending_job.mroot
              /\ g.bt.difficulty[1] = strat.pending_job.difficulty[1]
              /\ g.bt.time0 = strat.pending_job.time0
              /\ AsBTrailer(g.bt).tcount = 0
    /\ ctx.status # DEV_WORK
    /\ ctx.peach =>
          \A diff \in DiffFloors :
          \A r \in {TickFn(M, AsBTrailer(job_bt), diff, {}, now)} :
              /\ r.ev.solves = <<>>
              /\ r.ret # "VEOK"
              /\ \A k \in DOMAIN r.ev.hist : r.ev.hist[k].status # DEV_WORK
              /\ ctx.status = DEV_IDLE =>
                    r.ctx.status = DEV_IDLE /\ r.dev = dev

\* C37 witness: an idle device ticked with the trailer of a job taken from
\* the pool: block number and age of the trailer would open the gate, the
\* transaction count alone keeps it shut
C37_IdleOnJobTrailer ==
    /\ ctx.peach /\ ctx.status = DEV_IDLE
    /\ call = Call("tick", "VERROR")
    /\ strat.current_job.valid # 0
    /\ job_bt = JobTrailer(strat.current_job)
    /\ job_bt.phash # Zeros(HashBytes)
    /\ ~GateOpen(AsBTrailer(job_bt), out_bt, now)
    /\ GateOpen([AsBTrailer(job_bt) EXCEPT !.tcount = 1], out_bt, now)
    /\ TickFn(M, AsBTrailer(job_bt), 0, {}, now).ctx.status = DEV_IDLE


\* C38 as stated: a connect() that returns 0 leaves the receive buffer
\* empty, also when it is called on a client that is still connected.
C38_ConnectEmptiesBuffer ==
    \A r \in {ConnectFn(strat, {})} :
        r.ret = 0 => r.ctx.recv_buf = <<>>

====
